---- MODULE Spec2Model ----
(***************************************************************************)
(* Verification model of wdht: the Kademlia logic (storage, k-bucket,      *)
(* k-tree, iterative search, orchestrator) and the WebRTC connection       *)
(* registry.  Every component has its own specification over the shared    *)
(* variable list; the variables of the other components stay at their      *)
(* initial value.                                                          *)
(***************************************************************************)
EXTENDS Integers, Sequences, FiniteSets, TLC

VARIABLES
    \* ---- logic/src/storage.rs : Storage
    entry_count,    \* Storage.entry_count
    topics,         \* Storage.topics : topic -> Vec<TopicEntry> (domain = keys present)
    deadlines,      \* Storage.deadlines : PriorityQueue<(topic, publisher), Instant>
    now,            \* Instant::now()
    st_res,         \* result of the last Storage call
    st_last,        \* history: data of the last successful insert per (topic, publisher)
    \* ---- logic/src/ktree.rs : KTree, logic/src/kbucket.rs : KBucket
    tree_id,        \* KTree.id
    nodes,          \* KTree.nodes : entry index -> bucket index -> KBucket
    size,           \* KTree.size
    tr_last,        \* history: the last KTree call, its result and the bucket before it
    \* ---- logic/src/search/mod.rs : BasicSearch::search, logic/src/dht.rs : KademliaDht
    se_pc,          \* position of the running call: idle, searching, inserting, done
    se_call,        \* the call: [op, target, parallelism, search_type, limit, lifetime, value]
    to_query,       \* the window: Vec<(QueryState, Contact)>
    queried,        \* HashSet<Id> of the ids already entered
    pending,        \* FuturesUnordered: ids of the requests in flight
    available_futures,
    data_entries,   \* HashMap<Id, Vec<u8>>: publisher -> data
    se_sent,        \* history: number of requests sent to each id by the search
    answers,        \* send_request_and_count: ids whose Insert is unanswered
    count,          \* send_request_and_count: count
    se_result,      \* value returned by the call
    \* ---- logic/src/config.rs : RoutingConfig
    routing_limit,  \* config.routing.max_routing_count of the node
    \* ---- wdht/src/wrtc/mod.rs : Connections, wdht/src/wrtc/conn.rs : WrtcConnection
    is_shutting_down,
    connection_count,
    connected_count,
    half_closed_count,
    connections,    \* HashMap<Id, Orc<WrtcConnection>>: peer id -> connection
    half_closed_connections,    \* VecDeque<Id>
    detached,       \* the WrtcConnection objects out of the registry that a contact holds
    attempts,       \* the connection attempts in flight (create_channel_and_register tasks)
    \* ---- transport/src/wrtc/connector.rs : WrtcConnectorInner
    connecting,     \* HashMap<Id, (Receiver, usize)>: peer id -> id of the last sender
    sender_id,
    cn_last,        \* history: the last admission or handshake and what it did
    admitted,       \* history: the attempts admitted so far
    \* ---- two nodes that open a connection to each other at once
    rc_reg,         \* node -> its Connections
    rc_cn,          \* node -> its WrtcConnectorInner
    rc_att,         \* node -> role -> the attempt in flight
    rc_net,         \* the offers and answers on their way through the referrer
    rc_chan,        \* node -> the channel of the connection it registered
    rc_started,     \* history: node -> what its create_active gave
    rc_failed,      \* history: a channel or a handshake failed
    \* ---- wdht/src/reconnect.rs : bootstrap_reconnector and the event channel
    bs_link,        \* the connection to the bootstrap peer: "up" or "down"
    bs_reason,      \* the DisconnectReason of its last disconnection
    bs_other,       \* the connection to another peer: "up" or "down"
    bs_events,      \* the events the reconnector's Receiver has not received yet
    id_to_index,    \* the keys of id_to_index
    bs_tasks,       \* the connector tasks alive (spawn_connector)
    bs_reported,    \* the first attempt has reported to initial_connection_report
    bs_pc,          \* bootstrap_reconnector: "initial" (join_all), "loop", "stopped"
    bs_reachable,   \* the bootstrap URL answers
    bs_shutdown,    \* Connections::shutdown has run
    \* ---- wdht/src/wrtc/conn.rs : one WrtcConnection and the requests sent on it
    next_id,        \* InnerWrtcConnection.next_id
    responses,      \* InnerWrtcConnection.responses: the request ids that wait
    channel_open,   \* the data channel accepts messages
    sr_listening,   \* connection_listen runs
    sr_registered,  \* Connections.connections holds the connection under its peer id
    sr_events,      \* the events a subscriber of events_tx has not received yet
    sr_last,        \* history: the handler that has just run and what it found
    sr_shut,        \* history: the reason of the first shutdown of the object
    sr_after,       \* history: the requests issued after that shutdown
    sr_result,      \* request id -> what send_request returned
    \* ---- wdht/src/wrtc/handshake.rs : the handshakes of one node
    hs_connections, \* Connections.connections: peer id -> the channel registered
    hs_last,        \* history: the attempt just made, what it received and what it gave
    \* ---- dht/src/id.rs : one call of Id::bitslice
    sl_id,          \* the bytes of the Id
    sl_index,
    sl_len,
    sl_out,         \* the value returned
    \* ---- wdht/src/wrtc/conn.rs : the two ends of one connection and its channel
    hc_conn,        \* end -> the WrtcConnection of that end and what its registry keeps of it
    hc_net,         \* end -> the frames on their way to the listener of that end
    hc_open,        \* the data channel between the two ends is up
    \* ---- transport/src/wrtc/connector.rs : the callers that wait for a peer
    dd_cn,          \* WrtcConnectorInner { connecting, sender_id }
    dd_echan,       \* peer id -> the broadcast channel of its pending entry
    dd_senders,     \* the CreatingConnectionSenders alive (attempts in progress)
    dd_chan,        \* channel -> the results broadcast on it (capacity 1)
    dd_callers,     \* caller -> the id it asked for, its receiver and what it received
    \* ---- wdht/src/reconnect.rs : the connector task of one bootstrap URL
    bo_pc,          \* where the task is: "connect", "sleep", "ok", "err"
    bo_wait_secs,   \* wait_secs
    bo_retry,       \* sleeps made so far
    bo_sleep,       \* the Duration of the last sleep: [secs, nanos]
    bo_report,      \* what initial_connection_report received
    \* ---- wasync/src/lib.rs : one bounded mpsc channel and its senders
    ms_queue,       \* the messages in the channel
    ms_closed,      \* the Receiver was dropped or closed
    ms_helpers,     \* the messages held by spawned helper tasks
    ms_status,      \* message -> what became of it
    \* ---- wdht/src/wrtc/mod.rs : after_handshake between its two locks
    ad_pending      \* the registration whose on_connect has not run yet, or NoPending

storageVars == <<entry_count, topics, deadlines, now, st_res, st_last>>
treeVars == <<tree_id, nodes, size, tr_last, routing_limit>>
searchVars == <<se_pc, se_call, to_query, queried, pending, available_futures,
                data_entries, se_sent, answers, count, se_result>>

connVars == <<is_shutting_down, connection_count, connected_count, half_closed_count,
              connections, half_closed_connections, detached, attempts, connecting,
              sender_id, cn_last, admitted>>

raceVars == <<rc_reg, rc_cn, rc_att, rc_net, rc_chan, rc_started, rc_failed>>

bootVars == <<bs_link, bs_reason, bs_other, bs_events, id_to_index, bs_tasks,
              bs_reported, bs_pc, bs_reachable, bs_shutdown>>

sendVars == <<next_id, responses, channel_open, sr_listening, sr_registered, sr_events,
              sr_shut, sr_after, sr_result, sr_last>>

handshakeVars == <<hs_connections, hs_last>>
sliceVars == <<sl_id, sl_index, sl_len, sl_out>>

\* the units modelled on their own
halfVars == <<hc_conn, hc_net, hc_open>>
dedupVars == <<dd_cn, dd_echan, dd_senders, dd_chan, dd_callers>>
backoffVars == <<bo_pc, bo_wait_secs, bo_retry, bo_sleep, bo_report>>
spawnVars == <<ms_queue, ms_closed, ms_helpers, ms_status>>
adoptVars == <<ad_pending>>
unitVars == <<bootVars, sendVars, handshakeVars, sliceVars, halfVars, dedupVars, backoffVars, spawnVars, adoptVars>>

vars == <<storageVars, treeVars, searchVars, connVars, raceVars, unitVars>>

\* the variables of the other components
notStorage == <<treeVars, searchVars, connVars, raceVars, unitVars>>
notTree == <<storageVars, searchVars, connVars, raceVars, unitVars>>

None == "None"

(***************************************************************************)
(* Generic helpers                                                         *)
(***************************************************************************)
RECURSIVE SeqsUpTo(_, _)
SeqsUpTo(S, n) ==
    IF n = 0 THEN {<<>>}
    ELSE LET shorter == SeqsUpTo(S, n - 1)
         IN  shorter \cup {Append(s, x) : s \in {q \in shorter : Len(q) = n - 1}, x \in S}

Range(s) == {s[i] : i \in DOMAIN s}

\* Vec::remove(pos)
RemoveAt(s, pos) == [i \in 1..(Len(s) - 1) |-> IF i < pos THEN s[i] ELSE s[i + 1]]

\* Iterator::position: first index satisfying the test, 0 when none
FirstIndex(s, Test(_)) ==
    IF \E i \in DOMAIN s : Test(s[i])
    THEN CHOOSE i \in DOMAIN s : Test(s[i]) /\ \A j \in 1..(i - 1) : ~Test(s[j])
    ELSE 0

(***************************************************************************)
(* Storage (logic/src/storage.rs)                                          *)
(***************************************************************************)
\* model bounds
NTopics == 2
NPublishers == 2
MaxDataLen == 2
MaxTime == 1
\* StorageConfig of the model
max_size == 1
max_lifetime == 1
max_entries == 2
\* largest representable Instant (checked_add fails beyond it)
InstantMax == 1000

Topics == 1..NTopics
Publishers == 1..NPublishers
Bytes == {0}
DataSet == SeqsUpTo(Bytes, MaxDataLen)
Lifetimes == 0..(max_lifetime + 1)

\* Storage::get
Storage_get(tp, id) == IF id \in DOMAIN tp THEN tp[id] ELSE None

\* is an entry of this publisher stored under the topic
HasEntry(tp, topic, publisher) ==
    topic \in DOMAIN tp /\ \E i \in DOMAIN tp[topic] : tp[topic][i].publisher = publisher

\* Storage::check_entry
check_entry(lifetime, data) ==
    IF Len(data) > max_size THEN "InvalidData"
    ELSE IF lifetime > max_lifetime THEN "InvalidLifetime"
    ELSE "Ok"

\* Storage::remove that forgets entry_count -= 1
Storage_remove_nocount(s, topic, user) ==
    IF topic \notin DOMAIN s.topics THEN s
    ELSE LET list == s.topics[topic]
             pos == FirstIndex(list, LAMBDA x : x.publisher = user)
         IN  IF pos = 0 THEN s
             ELSE LET rest == RemoveAt(list, pos)
                      key == <<topic, user>>
                  IN  [entry_count |-> s.entry_count,
                       deadlines |-> [k \in DOMAIN s.deadlines \ {key} |-> s.deadlines[k]],
                       topics |-> IF rest = <<>>
                                  THEN [t \in DOMAIN s.topics \ {topic} |-> s.topics[t]]
                                  ELSE [s.topics EXCEPT ![topic] = rest]]

\* Storage::remove that leaves the record of the entry in deadlines
Storage_remove_keeprecord(s, topic, user) ==
    IF topic \notin DOMAIN s.topics THEN s
    ELSE LET list == s.topics[topic]
             pos == FirstIndex(list, LAMBDA x : x.publisher = user)
         IN  IF pos = 0 THEN s
             ELSE LET rest == RemoveAt(list, pos)
                  IN  [entry_count |-> s.entry_count - 1,
                       deadlines |-> s.deadlines,
                       topics |-> IF rest = <<>>
                                  THEN [t \in DOMAIN s.topics \ {topic} |-> s.topics[t]]
                                  ELSE [s.topics EXCEPT ![topic] = rest]]

\* Storage::remove, as a function of the three fields
Storage_remove(s, topic, user) ==
    IF topic \notin DOMAIN s.topics THEN s
    ELSE LET list == s.topics[topic]
             pos == FirstIndex(list, LAMBDA x : x.publisher = user)
         IN  IF pos = 0 THEN s
             ELSE LET rest == RemoveAt(list, pos)
                      key == <<topic, user>>
                  IN  [entry_count |-> s.entry_count - 1,
                       deadlines |-> [k \in DOMAIN s.deadlines \ {key} |-> s.deadlines[k]],
                       topics |-> IF rest = <<>>
                                  THEN [t \in DOMAIN s.topics \ {topic} |-> s.topics[t]]
                                  ELSE [s.topics EXCEPT ![topic] = rest]]

\* PriorityQueue::peek: an item of greatest priority
PQ_peek(dl) == CHOOSE k \in DOMAIN dl : \A o \in DOMAIN dl : dl[o] <= dl[k]

\* Storage::periodic_run
RECURSIVE Storage_periodic_run(_, _)
Storage_periodic_run(s, t) ==
    IF DOMAIN s.deadlines = {} THEN s
    ELSE LET top == PQ_peek(s.deadlines)
         IN  IF s.deadlines[top] > t THEN s
             ELSE LET popped == [s EXCEPT !.deadlines =
                                     [k \in DOMAIN s.deadlines \ {top} |-> s.deadlines[k]]]
                  IN  Storage_periodic_run(Storage_remove(popped, top[1], top[2]), t)

\* Storage::insert without the leading self.remove(topic, publisher)
Storage_insert_noremove(s, t, topic, publisher, lifetime, data) ==
    LET chk == check_entry(lifetime, data)
        deadline == t + lifetime
        key == <<topic, publisher>>
        entry == [publisher |-> publisher, data |-> data]
    IN  IF chk # "Ok" THEN <<chk, s>>
        ELSE IF s.entry_count >= max_entries THEN <<"TooManyEntries", s>>
        ELSE IF deadline > InstantMax THEN <<"InvalidLifetime", s>>
        ELSE <<"Ok",
               [entry_count |-> s.entry_count + 1,
                topics |-> IF topic \in DOMAIN s.topics
                           THEN [s.topics EXCEPT ![topic] = Append(@, entry)]
                           ELSE [x \in DOMAIN s.topics \cup {topic} |->
                                   IF x = topic THEN <<entry>> ELSE s.topics[x]],
                deadlines |-> [k \in DOMAIN s.deadlines \cup {key} |->
                                 IF k = key THEN deadline ELSE s.deadlines[k]]]>>

\* Storage::insert: <<result, storage after the call>>
Storage_insert(s, t, topic, publisher, lifetime, data) ==
    LET chk == check_entry(lifetime, data)
        removed == Storage_remove(s, topic, publisher)
        deadline == t + lifetime
        key == <<topic, publisher>>
        entry == [publisher |-> publisher, data |-> data]
    IN  IF chk # "Ok" THEN <<chk, s>>
        ELSE IF removed.entry_count >= max_entries THEN <<"TooManyEntries", removed>>
        ELSE IF deadline > InstantMax THEN <<"InvalidLifetime", removed>>
        ELSE <<"Ok",
               [entry_count |-> removed.entry_count + 1,
                topics |-> IF topic \in DOMAIN removed.topics
                           THEN [removed.topics EXCEPT ![topic] = Append(@, entry)]
                           ELSE [x \in DOMAIN removed.topics \cup {topic} |->
                                   IF x = topic THEN <<entry>> ELSE removed.topics[x]],
                deadlines |-> [k \in DOMAIN removed.deadlines \cup {key} |->
                                 IF k = key THEN deadline ELSE removed.deadlines[k]]]>>

StorageState == [entry_count |-> entry_count, topics |-> topics, deadlines |-> deadlines]

StorageInit ==
    /\ entry_count = 0
    /\ topics = <<>>
    /\ deadlines = <<>>
    /\ now = 0
    /\ st_res = [op |-> None, res |-> None, chk |-> None, had |-> FALSE, pre |-> 0]
    /\ st_last = [k \in Topics \X Publishers |-> None]

StInsert(topic, publisher, lifetime, data) ==
    LET r == Storage_insert(StorageState, now, topic, publisher, lifetime, data)
    IN  /\ entry_count' = r[2].entry_count
        /\ topics' = r[2].topics
        /\ deadlines' = r[2].deadlines
        /\ st_res' = [op |-> "insert", res |-> r[1], chk |-> check_entry(lifetime, data),
                       had |-> HasEntry(topics, topic, publisher), pre |-> entry_count]
        /\ st_last' = IF r[1] = "Ok"
                      THEN [st_last EXCEPT ![<<topic, publisher>>] = data]
                      ELSE st_last
        /\ UNCHANGED <<now, notStorage>>

StRemove(topic, user) ==
    LET r == Storage_remove(StorageState, topic, user)
    IN  /\ entry_count' = r.entry_count
        /\ topics' = r.topics
        /\ deadlines' = r.deadlines
        /\ st_res' = [op |-> "remove", res |-> None, chk |-> None, had |-> FALSE, pre |-> entry_count]
        /\ UNCHANGED <<now, st_last, notStorage>>

StPeriodicRun ==
    LET r == Storage_periodic_run(StorageState, now)
    IN  /\ entry_count' = r.entry_count
        /\ topics' = r.topics
        /\ deadlines' = r.deadlines
        /\ st_res' = [op |-> "periodic_run", res |-> None, chk |-> None, had |-> FALSE, pre |-> entry_count]
        /\ UNCHANGED <<now, st_last, notStorage>>

\* the monotonic clock advances
StTick ==
    /\ now < MaxTime
    /\ now' = now + 1
    /\ st_res' = [op |-> "tick", res |-> None, chk |-> None, had |-> FALSE, pre |-> entry_count]
    /\ UNCHANGED <<entry_count, topics, deadlines, st_last, notStorage>>

StInsertAny == \E t \in Topics, p \in Publishers, l \in Lifetimes, d \in DataSet : StInsert(t, p, l, d)
StRemoveAny == \E t \in Topics, p \in Publishers : StRemove(t, p)

StorageNext == StInsertAny \/ StRemoveAny \/ StPeriodicRun \/ StTick



(***************************************************************************)
(* Identifiers (dht/src/id.rs), as big-endian integers of BITS bits        *)
(***************************************************************************)
\* ID_LEN_BITS of the model
BITS == 3

RECURSIVE Pow2(_)
Pow2(n) == IF n = 0 THEN 1 ELSE 2 * Pow2(n - 1)

Ids == 0..(Pow2(BITS) - 1)

\* bit i of x, bit 0 being the most significant one
Bit(x, i) == (x \div Pow2(BITS - 1 - i)) % 2

RECURSIVE XorFrom(_, _, _)
XorFrom(a, b, i) ==
    IF i = BITS THEN 0
    ELSE (IF Bit(a, i) # Bit(b, i) THEN Pow2(BITS - 1 - i) ELSE 0) + XorFrom(a, b, i + 1)

\* impl BitXor for Id
Xor(a, b) == XorFrom(a, b, 0)

\* Id::leading_zeros
leading_zeros(x) ==
    IF x = 0 THEN BITS
    ELSE CHOOSE i \in 0..(BITS - 1) : Bit(x, i) = 1 /\ \A j \in 0..(i - 1) : Bit(x, j) = 0

\* Id::bitslice: len bits from bit index on, right-aligned
bitslice(x, index, len) == (x \div Pow2(BITS - index - len)) % Pow2(len)

Min(a, b) == IF a < b THEN a ELSE b

(***************************************************************************)
(* KBucket (logic/src/kbucket.rs)                                          *)
(***************************************************************************)
\* RoutingConfig of the model
bucket_size == 3
bucket_replacement_size == 1
buckets_per_bit == 1
max_routing_count == 5

EmptyBucket == [entries |-> <<>>, replacement_cache |-> <<>>]

\* slice[index..].rotate_right(1): the last element moves to position index
RotateRightFrom(s, index) ==
    [i \in DOMAIN s |-> IF i < index THEN s[i]
                        ELSE IF i = index THEN s[Len(s)]
                        ELSE s[i - 1]]

\* slice[index..].rotate_left(1): the element at index moves to the back
RotateLeftFrom(s, index) ==
    [i \in DOMAIN s |-> IF i < index THEN s[i]
                        ELSE IF i = Len(s) THEN s[index]
                        ELSE s[i + 1]]

\* KBucket::refresh_node that leaves the order alone
KBucket_refresh_node_noop(b, id) ==
    LET index == FirstIndex(b.entries, LAMBDA x : x = id)
    IN  IF index # 0 THEN <<TRUE, b>> ELSE <<FALSE, b>>

\* KBucket::refresh_node: <<found, bucket after the call>>
KBucket_refresh_node(b, id) ==
    LET index == FirstIndex(b.entries, LAMBDA x : x = id)
    IN  IF index # 0
        THEN <<TRUE, [b EXCEPT !.entries = RotateRightFrom(b.entries, index)]>>
        ELSE <<FALSE, b>>

\* KBucket::has
KBucket_has(b, id) == id \in Range(b.entries) \cup Range(b.replacement_cache)

\* KBucket::insert without the test of has(id)
KBucket_insert_nohas(b, id) ==
    IF Len(b.entries) < bucket_size
    THEN <<TRUE, [b EXCEPT !.entries = Append(@, id)], <<>>>>
    ELSE IF Len(b.replacement_cache) < bucket_replacement_size
         THEN <<TRUE, [b EXCEPT !.replacement_cache = Append(@, id)], b.entries>>
    ELSE <<FALSE, b, <<>>>>

\* KBucket::insert: <<inserted, bucket after the call, ids pinged>>
KBucket_insert(b, id) ==
    IF KBucket_has(b, id) THEN <<FALSE, b, <<>>>>
    ELSE IF Len(b.entries) < bucket_size
         THEN <<TRUE, [b EXCEPT !.entries = Append(@, id)], <<>>>>
    ELSE IF Len(b.replacement_cache) < bucket_replacement_size
         THEN <<TRUE, [b EXCEPT !.replacement_cache = Append(@, id)], b.entries>>
    ELSE <<FALSE, b, <<>>>>

\* KBucket::remove: <<removed, bucket after the call>>
KBucket_remove(b, id) ==
    LET i == FirstIndex(b.entries, LAMBDA x : x = id)
        j == FirstIndex(b.replacement_cache, LAMBDA x : x = id)
    IN  IF i # 0
        THEN LET rest == RemoveAt(b.entries, i)
             IN  IF b.replacement_cache # <<>>
                 THEN <<TRUE, [entries |-> Append(rest, b.replacement_cache[1]),
                               replacement_cache |-> RemoveAt(b.replacement_cache, 1)]>>
                 ELSE <<TRUE, [b EXCEPT !.entries = rest]>>
        ELSE IF j # 0
        THEN <<TRUE, [b EXCEPT !.replacement_cache = RemoveAt(b.replacement_cache, j)]>>
        ELSE <<FALSE, b>>

(***************************************************************************)
(* KTree (logic/src/ktree.rs)                                              *)
(***************************************************************************)
\* KTreeEntry::new: 2^(buckets_per_bit - 1) buckets per entry
BucketIdx == 0..(Pow2(buckets_per_bit - 1) - 1)
EntryIdx == 0..(BITS - 1)

\* KTree::get_bucket_index
get_bucket_index(self, id) ==
    LET nid == Xor(self, id)
        entryi == Min(leading_zeros(nid), BITS - buckets_per_bit)
        bucketi == IF buckets_per_bit = 1 THEN 0
                   ELSE bitslice(nid, entryi + 1, buckets_per_bit - 1)
    IN  <<entryi, bucketi>>

\* KTree::get_bucket
get_bucket(self, nd, id) ==
    LET index == get_bucket_index(self, id) IN nd[index[1]][index[2]]

\* KTree::has
KTree_has(self, nd, id) == KBucket_has(get_bucket(self, nd, id), id)

\* KTree::insert without the test of max_routing_count
KTree_insert_nolimit(self, nd, sz, id) ==
    IF id = self THEN <<FALSE, nd, sz, <<>>>>
    ELSE LET index == get_bucket_index(self, id)
             r == KBucket_insert(nd[index[1]][index[2]], id)
         IN  <<r[1], [nd EXCEPT ![index[1]][index[2]] = r[2]],
               IF r[1] THEN sz + 1 ELSE sz, r[3]>>

\* KTree::insert: <<inserted, nodes, size, ids pinged>>
KTree_insert(self, nd, sz, id) ==
    IF id = self THEN <<FALSE, nd, sz, <<>>>>
    ELSE IF sz >= routing_limit THEN <<FALSE, nd, sz, <<>>>>
    ELSE LET index == get_bucket_index(self, id)
             r == KBucket_insert(nd[index[1]][index[2]], id)
         IN  <<r[1], [nd EXCEPT ![index[1]][index[2]] = r[2]],
               IF r[1] THEN sz + 1 ELSE sz, r[3]>>

\* KTree::remove: <<removed, nodes, size>>
KTree_remove(self, nd, sz, id) ==
    LET index == get_bucket_index(self, id)
        r == KBucket_remove(nd[index[1]][index[2]], id)
    IN  <<r[1], [nd EXCEPT ![index[1]][index[2]] = r[2]], IF r[1] THEN sz - 1 ELSE sz>>

\* KTree::refresh: <<found, nodes>>
KTree_refresh(self, nd, id) ==
    LET index == get_bucket_index(self, id)
        r == KBucket_refresh_node(nd[index[1]][index[2]], id)
    IN  <<r[1], [nd EXCEPT ![index[1]][index[2]] = r[2]]>>

\* NodeAggregator::add_bucket
add_bucket(acc, b) == acc \o b.entries

\* NodeAggregator::add_entry: every bucket of the entry, in index order
RECURSIVE add_entry_from(_, _, _)
add_entry_from(acc, entry, i) ==
    IF i \notin DOMAIN entry THEN acc
    ELSE add_entry_from(add_bucket(acc, entry[i]), entry, i + 1)

add_entry(acc, entry) == add_entry_from(acc, entry, 0)

\* the buckets of an entry other than bucket skip, in index order
RECURSIVE add_other_buckets(_, _, _, _)
add_other_buckets(acc, entry, skip, i) ==
    IF i \notin DOMAIN entry THEN acc
    ELSE add_other_buckets(IF i = skip THEN acc ELSE add_bucket(acc, entry[i]),
                           entry, skip, i + 1)

\* sort_unstable_by_key(|x| closer_to ^ x)
RECURSIVE SortByXor(_, _)
SortByXor(set, closer_to) ==
    IF set = {} THEN <<>>
    ELSE LET m == CHOOSE x \in set : \A y \in set : Xor(closer_to, x) <= Xor(closer_to, y)
         IN  <<m>> \o SortByXor(set \ {m}, closer_to)

\* NodeAggregator::finish
finish(acc, limit, closer_to) ==
    LET sorted == SortByXor(Range(acc), closer_to)
    IN  SubSeq(sorted, 1, Min(limit, Len(sorted)))

\* the walk over the entries on the right of index.0
RECURSIVE walk_right(_, _, _, _, _, _)
walk_right(nd, acc, e, e0, limit, closer_to) ==
    IF e > BITS - 1 THEN [done |-> FALSE, acc |-> acc]
    ELSE LET a == add_entry(acc, nd[e])
         IN  IF Len(a) >= limit
             THEN [done |-> TRUE,
                   acc |-> IF e0 # 0 THEN add_entry(a, nd[e0 - 1]) ELSE a]
             ELSE walk_right(nd, a, e + 1, e0, limit, closer_to)

\* the walk over the entries on the left of index.0, nearest first
RECURSIVE walk_left(_, _, _, _)
walk_left(nd, acc, e, limit) ==
    IF e < 0 THEN acc
    ELSE LET a == add_entry(acc, nd[e])
         IN  IF Len(a) >= limit THEN a ELSE walk_left(nd, a, e - 1, limit)

\* KTree::get_closer_n
get_closer_n(self, nd, closer_to, limit) ==
    LET index == get_bucket_index(self, closer_to)
        fentry == nd[index[1]]
        r1 == add_bucket(<<>>, fentry[index[2]])
        r2 == add_other_buckets(r1, fentry, index[2], 0)
        right == walk_right(nd, r2, index[1] + 1, index[1], limit, closer_to)
    IN  IF Len(r1) >= limit THEN finish(r1, limit, closer_to)
        ELSE IF Len(r2) >= limit THEN finish(r2, limit, closer_to)
        ELSE IF right.done THEN finish(right.acc, limit, closer_to)
        ELSE finish(walk_left(nd, right.acc, index[1] - 1, limit), limit, closer_to)

NoCall == [op |-> None, id |-> 0, ret |-> FALSE, pre |-> EmptyBucket, pings |-> <<>>]

\* own ids of the model (the table is symmetric under xor with the own id)
TreeIds == {0, 5}

\* KTree::new
TreeInit ==
    /\ tree_id \in TreeIds
    /\ nodes = [e \in EntryIdx |-> [b \in BucketIdx |-> EmptyBucket]]
    /\ size = 0
    /\ tr_last = NoCall
    /\ routing_limit = max_routing_count

\* the routing table of a specification that does not use it
TreeIdle ==
    /\ tree_id = 0
    /\ nodes = [e \in EntryIdx |-> [b \in BucketIdx |-> EmptyBucket]]
    /\ size = 0
    /\ tr_last = NoCall
    /\ routing_limit = max_routing_count

TrInsert(id) ==
    LET r == KTree_insert(tree_id, nodes, size, id)
    IN  /\ nodes' = r[2]
        /\ size' = r[3]
        /\ tr_last' = [op |-> "insert", id |-> id, ret |-> r[1],
                       pre |-> get_bucket(tree_id, nodes, id), pings |-> r[4]]
        /\ UNCHANGED <<tree_id, routing_limit, notTree>>

TrRemove(id) ==
    LET r == KTree_remove(tree_id, nodes, size, id)
    IN  /\ nodes' = r[2]
        /\ size' = r[3]
        /\ tr_last' = [op |-> "remove", id |-> id, ret |-> r[1],
                       pre |-> get_bucket(tree_id, nodes, id), pings |-> <<>>]
        /\ UNCHANGED <<tree_id, routing_limit, notTree>>

TrRefresh(id) ==
    LET r == KTree_refresh(tree_id, nodes, id)
    IN  /\ nodes' = r[2]
        /\ tr_last' = [op |-> "refresh", id |-> id, ret |-> r[1],
                       pre |-> get_bucket(tree_id, nodes, id), pings |-> <<>>]
        /\ UNCHANGED <<tree_id, size, routing_limit, notTree>>

TrInsertAny == \E id \in Ids : TrInsert(id)
TrRemoveAny == \E id \in Ids : TrRemove(id)
TrRefreshAny == \E id \in Ids : TrRefresh(id)

TreeNext == TrInsertAny \/ TrRemoveAny \/ TrRefreshAny

StorageIdle ==
    /\ entry_count = 0
    /\ topics = <<>>
    /\ deadlines = <<>>
    /\ now = 0
    /\ st_res = [op |-> None, res |-> None, chk |-> None, had |-> FALSE, pre |-> 0]
    /\ st_last = [k \in Topics \X Publishers |-> None]


(***************************************************************************)
(* Iterative search (logic/src/search/mod.rs) and the orchestrator calls   *)
(* that run it (logic/src/dht.rs)                                          *)
(***************************************************************************)
\* model bounds: ids per FoundNodes reply, entries per FoundData reply, parallelism
MaxFound == 2
MaxFoundData == 1
MaxParallelism == 2
\* BasicSearchOptions { parallelism: 2 } of KademliaDht::insert
InsertParallelism == 2

Waiting == "Waiting"
Querying == "Querying"
Queried == "Queried"

SearchTargets == {1}
\* the ids of the peers of the network, and the ids a reply can name
SearchPeers == {2, 3, 5, 6}
SearchIds == SearchPeers \cup {0}
FoundNodeLists == SeqsUpTo(SearchIds, MaxFound)
FoundEntries == [publisher : Publishers, data : {<<0>>}]
FoundDataLists == SeqsUpTo(FoundEntries, MaxFoundData)
\* what a request can resolve to: Err(TransportError) or Ok(RawResponse)
SearchReplies ==
    {[kind |-> "Err"], [kind |-> "Error"], [kind |-> "Done"]}
        \cup {[kind |-> "FoundNodes", nodes |-> l] : l \in FoundNodeLists}
        \cup {[kind |-> "FoundData", entries |-> l] : l \in FoundDataLists}
InsertReplies == {"Done", "Error", "FoundNodes", "Err"}

\* what get_closer_bucket can return: at most bucket_size ids of the table, nearest first
FirstBuckets(self, target) ==
    {SortByXor(S, target) :
        S \in {T \in SUBSET (SearchPeers \ {self}) : Cardinality(T) <= bucket_size}}

\* sort key of sort_bucket: Reverse(leading_zeros(id ^ target))
Clz(target, e) == leading_zeros(Xor(e.id, target))

\* insertion of e in front of the entries that are as close (not stable)
InsertByClz_front(acc, e, target) ==
    LET before == {i \in DOMAIN acc : Clz(target, acc[i]) <= Clz(target, e)}
        pos == IF before = {} THEN Len(acc) + 1
               ELSE CHOOSE i \in before : \A j \in before : i <= j
    IN  SubSeq(acc, 1, pos - 1) \o <<e>> \o SubSeq(acc, pos, Len(acc))

\* stable insertion of e behind the entries that are at least as close
InsertByClz(acc, e, target) ==
    LET before == {i \in DOMAIN acc : Clz(target, acc[i]) < Clz(target, e)}
        pos == IF before = {} THEN Len(acc) + 1
               ELSE CHOOSE i \in before : \A j \in before : i <= j
    IN  SubSeq(acc, 1, pos - 1) \o <<e>> \o SubSeq(acc, pos, Len(acc))

RECURSIVE SortFrom(_, _, _, _)
SortFrom(acc, bucket, i, target) ==
    IF i > Len(bucket) THEN acc
    ELSE SortFrom(InsertByClz(acc, bucket[i], target), bucket, i + 1, target)

\* BasicSearch::sort_bucket (slice::sort_by_key is stable)
sort_bucket(bucket, target) == SortFrom(<<>>, bucket, 1, target)

\* Vec::truncate
Truncate(v, n) == SubSeq(v, 1, Min(n, Len(v)))

\* BasicSearch::start_query: [started, queries, id]
start_query(queries) ==
    LET to == FirstIndex(queries, LAMBDA x : x.state = Waiting)
    IN  IF to = 0 THEN [started |-> FALSE, queries |-> queries, id |-> 0]
        ELSE [started |-> TRUE,
              queries |-> [queries EXCEPT ![to].state = Querying],
              id |-> queries[to].id]

\* start_query repeated until no entry is Waiting, whatever the futures available
RECURSIVE launch_greedy(_, _, _, _)
launch_greedy(queries, pend, available, sent) ==
    LET r == start_query(queries)
    IN  IF ~r.started
        THEN [queries |-> queries, pending |-> pend, available |-> available, sent |-> sent]
        ELSE launch_greedy(r.queries, Append(pend, r.id), available - 1,
                           [sent EXCEPT ![r.id] = @ + 1])

\* start_query repeated while futures are available: [queries, pending, available, sent]
RECURSIVE launch(_, _, _, _)
launch(queries, pend, available, sent) ==
    IF available = 0 THEN [queries |-> queries, pending |-> pend, available |-> 0, sent |-> sent]
    ELSE LET r == start_query(queries)
         IN  IF ~r.started
             THEN [queries |-> queries, pending |-> pend, available |-> available, sent |-> sent]
             ELSE launch(r.queries, Append(pend, r.id), available - 1,
                         [sent EXCEPT ![r.id] = @ + 1])

\* the FoundNodes arm without its filter: every id named becomes an entry
RECURSIVE fresh_nodes_nofilter(_, _, _)
fresh_nodes_nofilter(found, seen, i) ==
    IF i > Len(found) THEN [entries |-> <<>>, seen |-> seen]
    ELSE LET r == fresh_nodes_nofilter(found, seen \cup {found[i]}, i + 1)
         IN  [entries |-> <<[state |-> Waiting, id |-> found[i]]>> \o r.entries,
              seen |-> r.seen]

\* the filter of the FoundNodes arm: ids for which queried.insert(id) is true, in order
RECURSIVE fresh_nodes(_, _, _)
fresh_nodes(found, seen, i) ==
    IF i > Len(found) THEN [entries |-> <<>>, seen |-> seen]
    ELSE LET r == fresh_nodes(found, seen \cup {found[i]}, i + 1)
         IN  IF found[i] \in seen THEN r
             ELSE [entries |-> <<[state |-> Waiting, id |-> found[i]]>> \o r.entries,
                   seen |-> r.seen]

\* data_entries.insert(entry.publisher, entry.data) for each entry, in order
RECURSIVE merge_data(_, _, _)
merge_data(map, entries, i) ==
    IF i > Len(entries) THEN map
    ELSE merge_data([p \in DOMAIN map \cup {entries[i].publisher} |->
                        IF p = entries[i].publisher THEN entries[i].data ELSE map[p]],
                    entries, i + 1)

\* data_entries.into_iter().map(TopicEntry).collect(), in key order
RECURSIVE entries_of(_, _)
entries_of(map, keys) ==
    IF keys = {} THEN <<>>
    ELSE LET k == CHOOSE x \in keys : \A y \in keys : x <= y
         IN  <<[publisher |-> k, data |-> map[k]]>> \o entries_of(map, keys \ {k})

\* the value search() returns
search_result(call, window, data) ==
    IF DOMAIN data # {} /\ call.search_type = "Data"
    THEN [kind |-> "DataFound", entries |-> entries_of(data, DOMAIN data)]
    ELSE [kind |-> "CloserNodes", nodes |-> [i \in DOMAIN window |-> window[i].id]]

\* the value a call returns: Ok(value), Err(value); Pending holds installation_count
NoResult == [kind |-> None, value |-> None]
Ok(v) == [kind |-> "Ok", value |-> v]
Err(v) == [kind |-> "Err", value |-> v]

NoSearchCall == [op |-> None, target |-> 0, parallelism |-> 0, search_type |-> None,
                 limit |-> 0, lifetime |-> 0, value |-> <<>>]

SearchIdle ==
    /\ se_pc = "idle"
    /\ se_call = NoSearchCall
    /\ to_query = <<>>
    /\ queried = {}
    /\ pending = <<>>
    /\ available_futures = 0
    /\ data_entries = <<>>
    /\ se_sent = [i \in Ids |-> 0]
    /\ answers = {}
    /\ count = 0
    /\ se_result = NoResult

\* the rest of a call once search() has returned res
\* query_nodes / query_value return; insert stores locally and sends Insert to the others
AfterSearch(call, res) ==
    IF call.op = "query_nodes"
    THEN /\ se_pc' = "done"
         /\ se_result' = Ok(res.nodes)
         /\ UNCHANGED <<answers, count, entry_count, topics, deadlines>>
    ELSE IF call.op = "query_value"
    THEN /\ se_pc' = "done"
         /\ se_result' = Ok(IF res.kind = "DataFound" THEN res.entries ELSE None)
         /\ UNCHANGED <<answers, count, entry_count, topics, deadlines>>
    ELSE LET found == Range(res.nodes)
             local == Storage_insert(StorageState, now, call.target, tree_id,
                                     call.lifetime, call.value)
             installed == IF tree_id \in found THEN 1 ELSE 0
             others == found \ {tree_id}
         IN  IF tree_id \in found /\ local[1] # "Ok"
             THEN \* .unwrap() of the failed local insert
                  /\ se_pc' = "panicked"
                  /\ se_result' = NoResult
                  /\ entry_count' = local[2].entry_count
                  /\ topics' = local[2].topics
                  /\ deadlines' = local[2].deadlines
                  /\ UNCHANGED <<answers, count>>
             ELSE /\ IF tree_id \in found
                     THEN /\ entry_count' = local[2].entry_count
                          /\ topics' = local[2].topics
                          /\ deadlines' = local[2].deadlines
                     ELSE UNCHANGED <<entry_count, topics, deadlines>>
                  /\ answers' = others
                  /\ count' = 0
                  /\ IF others = {}
                     THEN se_pc' = "done" /\ se_result' = Ok(installed)
                     ELSE /\ se_pc' = "inserting"
                          /\ se_result' = [kind |-> "Pending", value |-> installed]

\* BasicSearch::search up to the first await, entered from query_nodes, query_value
\* (storage miss) or insert
BeginSearch(call, first_bucket) ==
    LET seeded == IF call.search_type = "Data" /\ call.target \in DOMAIN topics
                  THEN merge_data(<<>>, topics[call.target], 1)
                  ELSE <<>>
        window == sort_bucket([i \in DOMAIN first_bucket |->
                                  [state |-> Waiting, id |-> first_bucket[i]]]
                              \o <<[state |-> Queried, id |-> tree_id]>>, call.target)
        l == launch(window, <<>>, call.parallelism, [i \in Ids |-> 0])
    IN  /\ se_call' = call
        /\ queried' = Range(first_bucket) \cup {tree_id}
        /\ data_entries' = seeded
        /\ to_query' = l.queries
        /\ pending' = l.pending
        /\ available_futures' = call.parallelism - Len(l.pending)
        /\ se_sent' = l.sent
        /\ IF l.pending = <<>>
           THEN AfterSearch(call, search_result(call, l.queries, seeded))
           ELSE /\ se_pc' = "searching"
                /\ UNCHANGED <<se_result, answers, count, entry_count, topics, deadlines>>
        /\ UNCHANGED <<now, st_res, st_last, treeVars, connVars, raceVars, unitVars>>

\* KademliaDht::query_nodes
SeQueryNodes(target, parallelism, first_bucket) ==
    /\ se_pc = "idle"
    /\ BeginSearch([NoSearchCall EXCEPT !.op = "query_nodes", !.target = target,
                       !.parallelism = parallelism, !.search_type = "Nodes"], first_bucket)

\* KademliaDht::query_value
SeQueryValue(target, limit, parallelism, first_bucket) ==
    /\ se_pc = "idle"
    /\ IF target \in DOMAIN topics
       THEN /\ se_pc' = "done"
            /\ se_call' = [NoSearchCall EXCEPT !.op = "query_value", !.target = target,
                              !.parallelism = parallelism, !.search_type = "Data",
                              !.limit = limit]
            /\ se_result' = Ok(topics[target])
            /\ UNCHANGED <<to_query, queried, pending, available_futures, data_entries,
                           se_sent, answers, count, storageVars, treeVars, connVars, raceVars, unitVars>>
       ELSE BeginSearch([NoSearchCall EXCEPT !.op = "query_value", !.target = target,
                            !.parallelism = parallelism, !.search_type = "Data",
                            !.limit = limit], first_bucket)

\* KademliaDht::insert up to the first await
SeInsert(key, lifetime, value, first_bucket) ==
    /\ se_pc = "idle"
    /\ IF check_entry(lifetime, value) # "Ok"
       THEN /\ se_pc' = "done"
            /\ se_call' = [NoSearchCall EXCEPT !.op = "insert", !.target = key,
                              !.lifetime = lifetime, !.value = value]
            /\ se_result' = Err(check_entry(lifetime, value))
            /\ UNCHANGED <<to_query, queried, pending, available_futures, data_entries,
                           se_sent, answers, count, storageVars, treeVars, connVars, raceVars, unitVars>>
       ELSE BeginSearch([NoSearchCall EXCEPT !.op = "insert", !.target = key,
                            !.parallelism = InsertParallelism, !.search_type = "Nodes",
                            !.lifetime = lifetime, !.value = value], first_bucket)

\* SeResponse in which the error of a peer ends the call with that error
SeResponse_failfast(i, res) ==
    /\ se_pc = "searching"
    /\ i \in DOMAIN pending
    /\ LET id == pending[i]
           pend == RemoveAt(pending, i)
           entry == FirstIndex(to_query, LAMBDA x : x.id = id)
           marked == IF entry = 0 THEN to_query
                     ELSE [to_query EXCEPT ![entry].state = Queried]
           fresh == fresh_nodes(res.nodes, queried, 1)
           window == Truncate(sort_bucket(marked \o fresh.entries, se_call.target),
                              bucket_size)
           l == launch(window, pend, available_futures + 1, se_sent)
           isNodes == res.kind = "FoundNodes"
           isData == res.kind = "FoundData" /\ se_call.search_type = "Data"
           window2 == IF isNodes THEN l.queries ELSE marked
           pend2 == IF isNodes THEN l.pending ELSE pend
           data2 == IF isData THEN merge_data(data_entries, res.entries, 1)
                    ELSE data_entries
       IN  /\ to_query' = window2
           /\ pending' = pend2
           /\ available_futures' = IF isNodes THEN l.available ELSE available_futures + 1
           /\ queried' = IF isNodes THEN fresh.seen ELSE queried
           /\ se_sent' = IF isNodes THEN l.sent ELSE se_sent
           /\ data_entries' = data2
           /\ IF res.kind = "Err"
              THEN /\ se_pc' = "done"
                   /\ se_result' = Err(res.kind)
                   /\ UNCHANGED <<answers, count, entry_count, topics, deadlines>>
              ELSE IF (\A j \in DOMAIN window2 : window2[j].state = Queried) \/ pend2 = <<>>
              THEN AfterSearch(se_call, search_result(se_call, window2, data2))
              ELSE UNCHANGED <<se_pc, se_result, answers, count,
                               entry_count, topics, deadlines>>
    /\ UNCHANGED <<se_call, now, st_res, st_last, treeVars, connVars, raceVars, unitVars>>

\* one turn of the loop of search(): the request to pending[i] resolves with res
SeResponse(i, res) ==
    /\ se_pc = "searching"
    /\ i \in DOMAIN pending
    /\ LET id == pending[i]
           pend == RemoveAt(pending, i)
           entry == FirstIndex(to_query, LAMBDA x : x.id = id)
           marked == IF entry = 0 THEN to_query
                     ELSE [to_query EXCEPT ![entry].state = Queried]
           fresh == fresh_nodes(res.nodes, queried, 1)
           window == Truncate(sort_bucket(marked \o fresh.entries, se_call.target),
                              bucket_size)
           l == launch(window, pend, available_futures + 1, se_sent)
           isNodes == res.kind = "FoundNodes"
           isData == res.kind = "FoundData" /\ se_call.search_type = "Data"
           window2 == IF isNodes THEN l.queries ELSE marked
           pend2 == IF isNodes THEN l.pending ELSE pend
           data2 == IF isData THEN merge_data(data_entries, res.entries, 1)
                    ELSE data_entries
       IN  /\ to_query' = window2
           /\ pending' = pend2
           /\ available_futures' = IF isNodes THEN l.available ELSE available_futures + 1
           /\ queried' = IF isNodes THEN fresh.seen ELSE queried
           /\ se_sent' = IF isNodes THEN l.sent ELSE se_sent
           /\ data_entries' = data2
           /\ IF (\A j \in DOMAIN window2 : window2[j].state = Queried) \/ pend2 = <<>>
              THEN AfterSearch(se_call, search_result(se_call, window2, data2))
              ELSE UNCHANGED <<se_pc, se_result, answers, count,
                               entry_count, topics, deadlines>>
    /\ UNCHANGED <<se_call, now, st_res, st_last, treeVars, connVars, raceVars, unitVars>>

\* one turn of the loop of send_request_and_count: the Insert sent to id resolves
SeInsertAnswer(id, res) ==
    /\ se_pc = "inserting"
    /\ id \in answers
    /\ answers' = answers \ {id}
    /\ count' = IF res = "Done" THEN count + 1 ELSE count
    /\ IF answers' = {}
       THEN se_pc' = "done" /\ se_result' = Ok(se_result.value + count')
       ELSE UNCHANGED <<se_pc, se_result>>
    /\ UNCHANGED <<se_call, to_query, queried, pending, available_futures, data_entries,
                   se_sent, storageVars, treeVars, connVars, raceVars, unitVars>>

SeQueryNodesAny ==
    \E t \in SearchTargets, p \in 1..MaxParallelism :
        \E fb \in FirstBuckets(tree_id, t) : SeQueryNodes(t, p, fb)
SeQueryValueAny ==
    \E t \in SearchTargets, p \in 1..MaxParallelism, limit \in 1..MaxFoundData :
        \E fb \in FirstBuckets(tree_id, t) : SeQueryValue(t, limit, p, fb)
SeInsertAny ==
    \E t \in SearchTargets, l \in Lifetimes, d \in DataSet :
        \E fb \in FirstBuckets(tree_id, t) : SeInsert(t, l, d, fb)
SeResponseAny == \E i \in DOMAIN pending : \E res \in SearchReplies : SeResponse(i, res)
SeInsertAnswerAny == \E id \in answers : \E res \in InsertReplies : SeInsertAnswer(id, res)

SearchNext ==
    SeQueryNodesAny \/ SeQueryValueAny \/ SeInsertAny \/ SeResponseAny \/ SeInsertAnswerAny

\* the two query operations alone
QueryNext == SeQueryNodesAny \/ SeQueryValueAny \/ SeResponseAny

\* a target that is far from the node: peers are closer to it than the node is
FarTarget == 6

\* query_nodes for the far target
SeQueryFarAny ==
    \E p \in 1..MaxParallelism :
        \E fb \in FirstBuckets(tree_id, FarTarget) : SeQueryNodes(FarTarget, p, fb)

WindowNext == SeQueryFarAny \/ SeResponseAny

\* peers whose Insert requests reach this node
InsertSenders == {2}
\* what they insert
InsertLifetimes == {max_lifetime}
InsertData == {<<>>}

\* KademliaDht::on_request, Request::Insert arm: the sender is refreshed in the
\* routing table, then its entry goes to the local storage; a storage error is
\* logged and answered with Response::Error. The requests modelled are those
\* served before the node's own insert starts.
OnRequestInsert(sender, topic, lifetime, data) ==
    LET refreshed == KTree_refresh(tree_id, nodes, sender)
        r == Storage_insert(StorageState, now, topic, sender, lifetime, data)
    IN  /\ se_pc = "idle"
        /\ nodes' = refreshed[2]
        /\ entry_count' = r[2].entry_count
        /\ topics' = r[2].topics
        /\ deadlines' = r[2].deadlines
        /\ UNCHANGED <<now, st_res, st_last, tree_id, size, tr_last, routing_limit,
                       searchVars, connVars, raceVars, unitVars>>

OnRequestInsertAny ==
    \E s \in InsertSenders, t \in Topics, l \in InsertLifetimes, d \in InsertData :
        OnRequestInsert(s, t, l, d)

\* the node's own insert of an entry that passes check_entry
SeInsertOwnAny ==
    \E t \in SearchTargets, l \in InsertLifetimes, d \in InsertData :
        \E fb \in FirstBuckets(tree_id, t) : SeInsert(t, l, d, fb)

\* a node that serves Insert requests of its peers and inserts itself
InsertNext == OnRequestInsertAny \/ SeInsertOwnAny \/ SeResponseAny \/ SeInsertAnswerAny


(***************************************************************************)
(* Connection registry (wdht/src/wrtc/mod.rs), one connection              *)
(* (wdht/src/wrtc/conn.rs) and the connector's table of attempts           *)
(* (transport/src/wrtc/connector.rs)                                       *)
(***************************************************************************)
\* TransportConfig.max_connections of the node modelled
max_connections == 2
\* SystemConfig.routing.max_routing_count of the node modelled
conn_routing_count == 1
\* model bounds: width of the atomic counters, connections that left the registry while a
\* contact still holds them, attempts in flight at once, senders the connector hands out,
\* length of the half-closed queue, attempts admitted in one run
CounterBits == 2
MaxDetached == 1
MaxAttempts == 1
MaxSenders == 1
MaxFifo == 2
MaxAdmitted == 4

\* the id of the node and the ids of its peers
ConnSelf == 2
ConnPeers == {1, 3}
Slots == 1..MaxAttempts

\* AtomicU64::fetch_add / fetch_sub wrap
Wrap(x) == x % Pow2(CounterBits)

\* Option::None where an id is expected
Absent == 0 - 1

NoAttempt == [role |-> None]

\* WrtcConnection::new; registered: the registry holds an Orc of it, held: a contact does,
\* listening: connection_listen still runs
NewConn(id) ==
    [peer_id |-> id, registered |-> FALSE, listening |-> TRUE, held |-> FALSE,
     dont_cleanup |-> FALSE, other_half_closed |-> FALSE, this_half_closed |-> FALSE]

\* HashMap::remove
MapRemove(map, k) == [x \in DOMAIN map \ {k} |-> map[x]]
\* HashMap::insert
MapInsert(map, k, v) == [x \in DOMAIN map \cup {k} |-> IF x = k THEN v ELSE map[x]]

\* the registry and what its handlers reach, as one value
RegState ==
    [cc |-> connection_count, cdc |-> connected_count, hcc |-> half_closed_count,
     conns |-> connections, fifo |-> half_closed_connections, detached |-> detached,
     nodes |-> nodes, size |-> size, events |-> <<>>,
     self_id |-> tree_id, down |-> is_shutting_down]

\* connections.remove(id): the registry drops its Orc; the object lives on only if a
\* contact holds it
Unregister(s, id) ==
    IF id \notin DOMAIN s.conns THEN s
    ELSE LET c == s.conns[id]
         IN  [s EXCEPT !.conns = MapRemove(@, id),
                       !.detached = IF c.held THEN @ \cup {[c EXCEPT !.registered = FALSE]}
                                    ELSE @]

\* the connection objects alive
Objects == {connections[p] : p \in DOMAIN connections} \cup detached

\* a field of the object c written through its inner lock
SetObj(s, c, c2) ==
    IF c.registered THEN [s EXCEPT !.conns[c.peer_id] = c2]
    ELSE [s EXCEPT !.detached = (@ \ {c}) \cup {c2}]

\* Connections::on_disconnect
on_disconnect(s, peer_id, reason, update_conn_count, was_half_closed) ==
    LET pos == FirstIndex(s.fifo, LAMBDA x : x = peer_id)
        r == KTree_remove(s.self_id, s.nodes, s.size, peer_id)
    IN  [Unregister(s, peer_id) EXCEPT
            !.cc = IF update_conn_count THEN Wrap(@ - 1) ELSE @,
            !.cdc = IF update_conn_count THEN Wrap(@ - 1) ELSE @,
            !.hcc = IF was_half_closed THEN Wrap(@ - 1) ELSE @,
            !.fifo = IF was_half_closed /\ pos # 0 THEN RemoveAt(@, pos) ELSE @,
            !.nodes = r[2],
            !.size = r[3],
            !.events = Append(@, [kind |-> "Disconnect", id |-> peer_id, reason |-> reason])]

\* Connections::on_half_closed
on_half_closed(s, conn) ==
    [s EXCEPT !.fifo = Append(@, conn), !.hcc = Wrap(@ + 1)]

\* WrtcConnection::shutdown, called on the object c; shutdown_local at its end only
\* resolves the replies in flight (InnerWrtcConnection.responses), which this state omits
Conn_shutdown(s, c, reason) ==
    on_disconnect(Unregister(s, c.peer_id), c.peer_id, reason, TRUE, c.this_half_closed)

\* Connections::alloc_connection: [ok, s]
alloc_connection(s) ==
    IF s.down THEN [ok |-> FALSE, s |-> s]
    ELSE IF s.cc < max_connections THEN [ok |-> TRUE, s |-> [s EXCEPT !.cc = Wrap(@ + 1)]]
    ELSE IF s.hcc = 0 THEN [ok |-> FALSE, s |-> s]
    ELSE LET s1 == [s EXCEPT !.hcc = Wrap(@ - 1)]
         IN  IF s1.fifo = <<>> THEN [ok |-> FALSE, s |-> s1]
             ELSE LET id == Head(s1.fifo)
                      s2 == [s1 EXCEPT !.fifo = Tail(@)]
                  IN  IF id \notin DOMAIN s2.conns THEN [ok |-> TRUE, s |-> s2]
                      ELSE LET s3 == [Unregister(s2, id) EXCEPT !.cdc = Wrap(@ - 1)]
                           IN  [ok |-> TRUE,
                                s |-> on_disconnect(s3, id, "HalfCloseReplace", FALSE, FALSE)]

\* the connector's table: WrtcConnectorInner { connecting, sender_id }
ConnectorState == [connecting |-> connecting, sender_id |-> sender_id]

\* create_passive without the rule of the lowest id: an offer is accepted over an entry
\* whatever the two ids are
Connector_create_passive_any(cn, dht_id, id) ==
    [sender |-> cn.sender_id,
     cn |-> [connecting |-> MapInsert(cn.connecting, id, cn.sender_id),
             sender_id |-> cn.sender_id + 1]]

\* WrtcConnectorInner::create_passive of the node dht_id: [sender, cn]; sender is the CreatingConnectionSender's
\* id, or Absent
Connector_create_passive(cn, dht_id, id) ==
    IF id \in DOMAIN cn.connecting
    THEN IF id < dht_id
         THEN [sender |-> cn.sender_id,
               cn |-> [connecting |-> [cn.connecting EXCEPT ![id] = cn.sender_id],
                       sender_id |-> cn.sender_id + 1]]
         ELSE [sender |-> Absent, cn |-> cn]
    ELSE [sender |-> cn.sender_id,
          cn |-> [connecting |-> MapInsert(cn.connecting, id, cn.sender_id),
                  sender_id |-> cn.sender_id + 1]]

\* WrtcConnectorInner::create_active
Connector_create_active(cn, dht_id, id) ==
    IF id \in DOMAIN cn.connecting THEN [sender |-> Absent, cn |-> cn]
    ELSE Connector_create_passive(cn, dht_id, id)

\* CreatingConnectionSender::is_last
is_last(cn, att) ==
    IF att.peer_id = Absent THEN TRUE
    ELSE att.peer_id \in DOMAIN cn.connecting /\ cn.connecting[att.peer_id] = att.id

\* nothing is broadcast to the waiters
NoSent == [kind |-> None, error |-> None, id |-> Absent]

\* send0 that broadcasts without removing the pending entry
send0_keepentry(cn, att, result) ==
    IF is_last(cn, att) THEN [sent |-> result, cn |-> cn] ELSE [sent |-> NoSent, cn |-> cn]

\* CreatingConnectionSender::send0: [sent, cn]; sent is the result the waiters receive,
\* or NoSent when nothing is broadcast
send0(cn, att, result) ==
    IF att.peer_id = Absent THEN [sent |-> result, cn |-> cn]
    ELSE IF is_last(cn, att)
    THEN [sent |-> result,
          cn |-> [cn EXCEPT !.connecting = MapRemove(@, att.peer_id)]]
    ELSE [sent |-> NoSent, cn |-> cn]

\* Connections::after_handshake: [s, cn, sent, out]
after_handshake(s, cn, att, res) ==
    IF ~res.ok
    THEN LET o == send0(cn, att, [kind |-> "Err", error |-> "Handshake", id |-> Absent])
         IN  [s |-> [s EXCEPT !.cc = Wrap(@ - 1)], cn |-> o.cn, sent |-> o.sent,
              out |-> "HandshakeError"]
    ELSE IF ~is_last(cn, att)
    THEN LET o == send0(cn, att, [kind |-> "Err", error |-> "Already connecting", id |-> Absent])
         IN  [s |-> [s EXCEPT !.cc = Wrap(@ - 1)], cn |-> o.cn, sent |-> o.sent,
              out |-> "AlreadyConnecting"]
    ELSE LET s1 == [s EXCEPT !.cdc = Wrap(@ + 1)]
         IN  IF res.id \in DOMAIN s1.conns
             THEN LET o == send0(cn, att, [kind |-> "Err", error |-> "IdConflict", id |-> res.id])
                  IN  [s |-> s1, cn |-> o.cn, sent |-> o.sent, out |-> "IdConflict"]
             ELSE LET r == KTree_insert(s.self_id, s1.nodes, s1.size, res.id)
                      conn == [NewConn(res.id) EXCEPT !.registered = TRUE, !.held = TRUE,
                                                      !.dont_cleanup = r[1]]
                      s2 == [s1 EXCEPT !.conns = MapInsert(@, res.id, conn),
                                       !.nodes = r[2],
                                       !.size = r[3],
                                       !.events = Append(@, [kind |-> "Connect", id |-> res.id,
                                                             reason |-> None])]
                      o == send0(cn, att, [kind |-> "Ok", error |-> None, id |-> res.id])
                  IN  [s |-> s2, cn |-> o.cn, sent |-> o.sent, out |-> "Ok"]

\* WrtcConnection::on_contact_lost, called on the object c
on_contact_lost(s, c) ==
    IF c.dont_cleanup THEN s
    ELSE IF c.other_half_closed THEN Conn_shutdown(s, c, "HalfCloseBoth")
    ELSE on_half_closed(SetObj(s, c, [c EXCEPT !.this_half_closed = TRUE]), c.peer_id)

\* Connections::shutdown, for the connections drained, in the order of their ids
RECURSIVE shutdown_all(_, _)
shutdown_all(s, ids) ==
    IF ids = {} THEN s
    ELSE LET id == CHOOSE x \in ids : \A y \in ids : x <= y
         IN  shutdown_all(on_disconnect(s, id, "ShuttingDown", TRUE, FALSE), ids \ {id})

\* history of the last alloc_connection (from create_active, create_passive) or
\* after_handshake: its argument, its outcome, the result broadcast to the waiters and the
\* events emitted; the other handlers clear it
NoConnCall == [op |-> None, arg |-> Absent, ok |-> None, sent |-> NoSent, events |-> <<>>]

ConnCall(op, arg, ok, sent, s) ==
    [op |-> op, arg |-> arg, ok |-> ok, sent |-> sent, events |-> s.events]

\* the registry, the objects and the routing table after a handler
SetReg(s) ==
    /\ Cardinality(s.detached) <= MaxDetached
    /\ connection_count' = s.cc
    /\ connected_count' = s.cdc
    /\ half_closed_count' = s.hcc
    /\ connections' = s.conns
    /\ half_closed_connections' = s.fifo
    /\ detached' = s.detached
    /\ nodes' = s.nodes
    /\ size' = s.size

SetConnector(cn) ==
    /\ connecting' = cn.connecting
    /\ sender_id' = cn.sender_id

ConnIdle ==
    /\ is_shutting_down = FALSE
    /\ connection_count = 0
    /\ connected_count = 0
    /\ half_closed_count = 0
    /\ connections = <<>>
    /\ half_closed_connections = <<>>
    /\ detached = {}
    /\ attempts = [a \in Slots |-> NoAttempt]
    /\ connecting = <<>>
    /\ sender_id = 0
    /\ cn_last = NoConnCall
    /\ admitted = 0

FreeSlot == CHOOSE a \in Slots : attempts[a] = NoAttempt /\ \A b \in Slots : attempts[b] = NoAttempt => a <= b
HasFreeSlot == \E a \in Slots : attempts[a] = NoAttempt

NewAttempt(role, peer_id, id) ==
    [role |-> role, peer_id |-> peer_id, id |-> id, chan |-> "open",
     ans |-> IF role = "Passive" THEN "wait" ELSE "got"]

CreatorDropped == [kind |-> "Err", error |-> "creator dropped", id |-> Absent]

\* what neither the registry nor the connector is
ConnOthers == <<storageVars, searchVars, raceVars, unitVars, tree_id, tr_last, routing_limit>>

\* the part create_active and create_passive share once the connector gave a sender:
\* alloc_connection, then the attempt is spawned or the sender is dropped
Admit(op, role, peer_id, o) ==
    LET a == alloc_connection(RegState)
        att == NewAttempt(role, peer_id, IF peer_id = Absent THEN 0 ELSE o.sender)
        d == send0(o.cn, att, CreatorDropped)
    IN  /\ SetReg(a.s)
        /\ IF a.ok
           THEN /\ admitted < MaxAdmitted
                /\ admitted' = admitted + 1
                /\ attempts' = [attempts EXCEPT ![FreeSlot] = att]
                /\ SetConnector(o.cn)
                /\ cn_last' = ConnCall(op, peer_id, "Ok", NoSent, a.s)
           ELSE /\ UNCHANGED <<attempts, admitted>>
                /\ SetConnector(d.cn)
                /\ cn_last' = ConnCall(op, peer_id, "ConnectionLimitReached", d.sent, a.s)

\* Connections::create_active(id), to the point where the attempt is spawned
CnCreateActive(id) ==
    /\ HasFreeSlot
    /\ id # Absent => sender_id < MaxSenders
    /\ LET o == IF id = Absent THEN [sender |-> 0, cn |-> ConnectorState]
                ELSE Connector_create_active(ConnectorState, ConnSelf, id)
       IN  IF o.sender = Absent
           THEN /\ cn_last' = NoConnCall
                /\ UNCHANGED <<connection_count, connected_count, half_closed_count,
                               connections, half_closed_connections, detached, nodes, size,
                               attempts, connecting, sender_id, admitted>>
           ELSE Admit("create_active", "Active", id, o)
    /\ UNCHANGED <<is_shutting_down, ConnOthers>>

\* a check of the registry that never finds the peer
already_connected_never(conns, id) == FALSE

\* process_message, TryOffer arm: connections.contains_key(&id)
already_connected(conns, id) == id \in DOMAIN conns

\* Connections::create_passive(id, offer), to the point where the attempt is spawned;
\* try_offer: the offer came as TryOffer over a connection (process_message), else over HTTP
CnCreatePassive(id, try_offer) ==
    /\ HasFreeSlot
    /\ sender_id < MaxSenders
    /\ try_offer => \E c \in Objects : c.listening
    /\ LET o == Connector_create_passive(ConnectorState, ConnSelf, id)
           op == IF try_offer THEN "try_offer" ELSE "create_passive"
       IN  IF try_offer /\ already_connected(connections, id)
           THEN /\ cn_last' = ConnCall(op, id, "already_connected", NoSent, RegState)
                /\ UNCHANGED <<connection_count, connected_count, half_closed_count,
                               connections, half_closed_connections, detached, nodes, size,
                               attempts, connecting, sender_id, admitted>>
           ELSE IF o.sender = Absent
           THEN /\ cn_last' = ConnCall(op, id, "AlreadyConnecting", NoSent, RegState)
                /\ UNCHANGED <<connection_count, connected_count, half_closed_count,
                               connections, half_closed_connections, detached, nodes, size,
                               attempts, connecting, sender_id, admitted>>
           ELSE Admit(op, "Passive", id, o)
    /\ UNCHANGED <<is_shutting_down, ConnOthers>>

\* create_passive: the answer of the channel reaches the caller
CnAnswer(a) ==
    /\ attempts[a] # NoAttempt
    /\ attempts[a].chan = "open" /\ attempts[a].ans = "wait"
    /\ attempts' = [attempts EXCEPT ![a].ans = "got"]
    /\ cn_last' = NoConnCall
    /\ UNCHANGED <<is_shutting_down, connection_count, connected_count, half_closed_count,
                   connections, half_closed_connections, detached, nodes, size,
                   connecting, sender_id, admitted, ConnOthers>>

\* create_channel_and_register: create_channel fails or the 60 s pass
CnChannelFail(a) ==
    /\ attempts[a] # NoAttempt
    /\ attempts[a].chan = "open"
    /\ LET s == [RegState EXCEPT !.cc = Wrap(@ - 1)]
           o == send0(ConnectorState, attempts[a],
                      [kind |-> "Err", error |-> "channel", id |-> Absent])
       IN  /\ SetReg(s)
           /\ SetConnector(o.cn)
           /\ attempts' = IF attempts[a].ans = "wait"
                          THEN [attempts EXCEPT ![a].chan = "done"]
                          ELSE [attempts EXCEPT ![a] = NoAttempt]
           /\ cn_last' = NoConnCall
    /\ UNCHANGED <<is_shutting_down, admitted, ConnOthers>>

\* create_passive: answer_rx fails because the channel task dropped answer_tx
CnAnswerLost(a) ==
    /\ attempts[a] # NoAttempt
    /\ attempts[a].chan = "done" /\ attempts[a].ans = "wait"
    /\ LET s == [RegState EXCEPT !.cc = Wrap(@ - 1)]
       IN  /\ SetReg(s)
           /\ cn_last' = NoConnCall
    /\ attempts' = [attempts EXCEPT ![a] = NoAttempt]
    /\ UNCHANGED <<is_shutting_down, connecting, sender_id, admitted, ConnOthers>>

\* create_channel_and_register: the channel opened and the handshake gave res
CnHandshake(a, res) ==
    /\ attempts[a] # NoAttempt
    /\ attempts[a].chan = "open" /\ attempts[a].ans = "got"
    /\ LET r == after_handshake(RegState, ConnectorState, attempts[a], res)
       IN  /\ SetReg(r.s)
           /\ SetConnector(r.cn)
           /\ cn_last' = ConnCall("after_handshake", res.id, r.out, r.sent, r.s)
    /\ attempts' = [attempts EXCEPT ![a] = NoAttempt]
    /\ UNCHANGED <<is_shutting_down, admitted, ConnOthers>>

ConnUnchangedAttempts ==
    <<is_shutting_down, attempts, connecting, sender_id, admitted, ConnOthers>>

\* connection_listen: the loop ends (channel closed, error, or a message it rejects) and
\* the connection is shut down if it can still be upgraded
CnListenerEnd(c) ==
    /\ c.listening
    /\ LET c2 == [c EXCEPT !.listening = FALSE]
           s == Conn_shutdown(SetObj(RegState, c, c2), c2, "ConnectionLost")
       IN  SetReg(s)
    /\ cn_last' = NoConnCall
    /\ UNCHANGED ConnUnchangedAttempts

\* process_message, Req arm: send_response fails
CnSendFail(c) ==
    /\ c.listening
    /\ SetReg(Conn_shutdown(RegState, c, "SendFail"))
    /\ cn_last' = NoConnCall
    /\ UNCHANGED ConnUnchangedAttempts

\* process_message, HalfClose arm
CnPeerHalfClose(c) ==
    /\ c.listening
    /\ ~c.other_half_closed
    /\ LET c2 == [c EXCEPT !.other_half_closed = TRUE]
           s1 == SetObj(RegState, c, c2)
       IN  SetReg(IF c.this_half_closed THEN Conn_shutdown(s1, c2, "HalfCloseBoth") ELSE s1)
    /\ cn_last' = NoConnCall
    /\ UNCHANGED ConnUnchangedAttempts

\* WrtcConnection::send_request: no reply comes and the 10 minutes pass
CnTimeout(c) ==
    /\ SetReg(Conn_shutdown(RegState, c, "TimeoutExpired"))
    /\ cn_last' = NoConnCall
    /\ UNCHANGED ConnUnchangedAttempts

\* the last contact of the connection is dropped: WrtcConnection::on_contact_lost, after
\* which an object out of the registry is freed
CnContactLost(c) ==
    /\ c.held
    /\ Len(half_closed_connections) < MaxFifo
    /\ LET c2 == [c EXCEPT !.held = FALSE]
           s == on_contact_lost(SetObj(RegState, c, c2), c2)
       IN  SetReg([s EXCEPT !.detached = {d \in @ : d.held}])
    /\ cn_last' = NoConnCall
    /\ UNCHANGED ConnUnchangedAttempts

\* Connections::shutdown
CnShutdown ==
    /\ ~is_shutting_down
    /\ is_shutting_down' = TRUE
    /\ SetReg(shutdown_all(RegState, DOMAIN connections))
    /\ cn_last' = NoConnCall
    /\ UNCHANGED <<attempts, connecting, sender_id, admitted, ConnOthers>>

HandshakeResults(att) ==
    {[ok |-> FALSE, id |-> Absent]}
        \cup {[ok |-> TRUE, id |-> p] :
                p \in IF att.peer_id = Absent THEN ConnPeers ELSE {att.peer_id}}

CnCreateActiveAny == \E id \in ConnPeers \cup {Absent} : CnCreateActive(id)
CnCreatePassiveAny == \E id \in ConnPeers, t \in BOOLEAN : CnCreatePassive(id, t)
CnAnswerAny == \E a \in Slots : CnAnswer(a)
CnChannelFailAny == \E a \in Slots : CnChannelFail(a)
CnAnswerLostAny == \E a \in Slots : CnAnswerLost(a)
CnHandshakeAny ==
    \E a \in Slots : attempts[a] # NoAttempt
                        /\ \E res \in HandshakeResults(attempts[a]) : CnHandshake(a, res)
CnListenerEndAny == \E c \in Objects : CnListenerEnd(c)
CnSendFailAny == \E c \in Objects : CnSendFail(c)
CnPeerHalfCloseAny == \E c \in Objects : CnPeerHalfClose(c)
CnTimeoutAny == \E c \in Objects : CnTimeout(c)
CnContactLostAny == \E c \in Objects : CnContactLost(c)

ConnNext ==
    \/ CnCreateActiveAny \/ CnCreatePassiveAny \/ CnAnswerAny \/ CnChannelFailAny
    \/ CnAnswerLostAny \/ CnHandshakeAny \/ CnListenerEndAny \/ CnSendFailAny
    \/ CnPeerHalfCloseAny \/ CnTimeoutAny
    \/ CnContactLostAny \/ CnShutdown

(***************************************************************************)
(* Two nodes that open a connection to each other at the same time: each   *)
(* has its own registry and connector; offers and answers travel through   *)
(* a referrer (ForwardOffer, TryOffer, ForwardAnswers)                     *)
(***************************************************************************)
RaceA == 1
RaceB == 3
RaceNodes == {RaceA, RaceB}
Peer(n) == IF n = RaceA THEN RaceB ELSE RaceA
Roles == {"Active", "Passive"}

\* Connections::create of the node n
NewRegistry(n) ==
    [cc |-> 0, cdc |-> 0, hcc |-> 0, conns |-> <<>>, fifo |-> <<>>, detached |-> {},
     nodes |-> [e \in EntryIdx |-> [b \in BucketIdx |-> EmptyBucket]], size |-> 0,
     events |-> <<>>, self_id |-> n, down |-> FALSE]

\* WrtcConnectorInner::default
NewConnector == [connecting |-> <<>>, sender_id |-> 0]

RaceIdle ==
    /\ rc_reg = [n \in RaceNodes |-> NewRegistry(n)]
    /\ rc_cn = [n \in RaceNodes |-> NewConnector]
    /\ rc_att = [n \in RaceNodes |-> [r \in Roles |-> NoAttempt]]
    /\ rc_net = {}
    /\ rc_chan = [n \in RaceNodes |-> Absent]
    /\ rc_started = [n \in RaceNodes |-> None]
    /\ rc_failed = FALSE

RaceOthers == <<storageVars, treeVars, searchVars, connVars, unitVars>>

Offer(to) == [type |-> "offer", to |-> to, ok |-> TRUE]
Answer(to, ok) == [type |-> "answer", to |-> to, ok |-> ok]

\* the registry of n after a handler; the events were handed to the subscribers
StoreReg(n, s) == rc_reg' = [rc_reg EXCEPT ![n] = [s EXCEPT !.events = <<>>]]

\* resolve_nodes at n finds no connection to the peer and asks for one:
\* Connections::create_active(Some(peer)), then the offer goes out as ForwardOffer
RcCreateActive(n) ==
    /\ rc_started[n] = None
    /\ Peer(n) \notin DOMAIN rc_reg[n].conns
    /\ LET o == Connector_create_active(rc_cn[n], n, Peer(n))
           a == alloc_connection(rc_reg[n])
           att == [NewAttempt("Active", Peer(n), o.sender) EXCEPT !.ans = "wait"]
       IN  IF o.sender = Absent
           THEN /\ rc_started' = [rc_started EXCEPT ![n] = "AlreadyConnecting"]
                /\ UNCHANGED <<rc_reg, rc_cn, rc_att, rc_net>>
           ELSE IF ~a.ok
           THEN /\ rc_started' = [rc_started EXCEPT ![n] = "ConnectionLimitReached"]
                /\ StoreReg(n, a.s)
                /\ rc_cn' = [rc_cn EXCEPT ![n] = send0(o.cn, att, CreatorDropped).cn]
                /\ UNCHANGED <<rc_att, rc_net>>
           ELSE /\ rc_started' = [rc_started EXCEPT ![n] = "started"]
                /\ StoreReg(n, a.s)
                /\ rc_cn' = [rc_cn EXCEPT ![n] = o.cn]
                /\ rc_att' = [rc_att EXCEPT ![n]["Active"] = att]
                /\ rc_net' = rc_net \cup {Offer(Peer(n))}
    /\ UNCHANGED <<rc_chan, rc_failed, RaceOthers>>

\* process_message at n, TryOffer arm: the offer of the peer arrives
RcTryOffer(n) ==
    /\ Offer(n) \in rc_net
    /\ LET o == Connector_create_passive(rc_cn[n], n, Peer(n))
           a == alloc_connection(rc_reg[n])
           att == NewAttempt("Passive", Peer(n), o.sender)
           refused == (rc_net \ {Offer(n)}) \cup {Answer(Peer(n), FALSE)}
       IN  IF Peer(n) \in DOMAIN rc_reg[n].conns
           THEN /\ rc_net' = refused
                /\ UNCHANGED <<rc_reg, rc_cn, rc_att>>
           ELSE IF o.sender = Absent
           THEN /\ rc_net' = refused
                /\ UNCHANGED <<rc_reg, rc_cn, rc_att>>
           ELSE IF ~a.ok
           THEN /\ rc_net' = refused
                /\ StoreReg(n, a.s)
                /\ rc_cn' = [rc_cn EXCEPT ![n] = send0(o.cn, att, CreatorDropped).cn]
                /\ UNCHANGED rc_att
           ELSE /\ rc_net' = rc_net \ {Offer(n)}
                /\ StoreReg(n, a.s)
                /\ rc_cn' = [rc_cn EXCEPT ![n] = o.cn]
                /\ rc_att' = [rc_att EXCEPT ![n]["Passive"] = att]
    /\ UNCHANGED <<rc_chan, rc_started, rc_failed, RaceOthers>>

\* create_passive at n: the channel gives its answer, which goes back as OkAnswer
RcPassiveAnswer(n) ==
    /\ rc_att[n]["Passive"] # NoAttempt
    /\ rc_att[n]["Passive"].chan = "open" /\ rc_att[n]["Passive"].ans = "wait"
    /\ rc_att' = [rc_att EXCEPT ![n]["Passive"].ans = "got"]
    /\ rc_net' = rc_net \cup {Answer(Peer(n), TRUE)}
    /\ UNCHANGED <<rc_reg, rc_cn, rc_chan, rc_started, rc_failed, RaceOthers>>

\* connect_to at n: the answer of the peer arrives; a refusal makes create_channel fail
RcRecvAnswer(n, ok) ==
    /\ Answer(n, ok) \in rc_net
    /\ rc_net' = rc_net \ {Answer(n, ok)}
    /\ LET att == rc_att[n]["Active"]
           o == send0(rc_cn[n], att, [kind |-> "Err", error |-> "channel", id |-> Absent])
       IN  IF att = NoAttempt
           THEN UNCHANGED <<rc_reg, rc_cn, rc_att>>
           ELSE IF ok
           THEN /\ rc_att' = [rc_att EXCEPT ![n]["Active"].ans = "got"]
                /\ UNCHANGED <<rc_reg, rc_cn>>
           ELSE /\ StoreReg(n, [rc_reg[n] EXCEPT !.cc = Wrap(@ - 1)])
                /\ rc_cn' = [rc_cn EXCEPT ![n] = o.cn]
                /\ rc_att' = [rc_att EXCEPT ![n]["Active"] = NoAttempt]
    /\ UNCHANGED <<rc_chan, rc_started, rc_failed, RaceOthers>>

\* create_channel_and_register at n: the channel opened, the handshake ended and
\* after_handshake runs; the channel is named by the node that made its offer
RcHandshake(n, role, ok) ==
    /\ rc_att[n][role] # NoAttempt
    /\ rc_att[n][role].chan = "open" /\ rc_att[n][role].ans = "got"
    /\ role = "Passive" => Answer(Peer(n), TRUE) \notin rc_net
    /\ LET res == [ok |-> ok, id |-> IF ok THEN Peer(n) ELSE Absent]
           r == after_handshake(rc_reg[n], rc_cn[n], rc_att[n][role], res)
       IN  /\ StoreReg(n, r.s)
           /\ rc_cn' = [rc_cn EXCEPT ![n] = r.cn]
           /\ rc_chan' = IF r.out = "Ok"
                         THEN [rc_chan EXCEPT ![n] = IF role = "Active" THEN n ELSE Peer(n)]
                         ELSE rc_chan
    /\ rc_att' = [rc_att EXCEPT ![n][role] = NoAttempt]
    /\ rc_failed' = (rc_failed \/ ~ok)
    /\ UNCHANGED <<rc_net, rc_started, RaceOthers>>

\* create_channel_and_register at n: create_channel fails or the 60 s pass; a passive
\* attempt that gave no answer yet makes create_passive fail too, which answers the offer
\* with an error
RcChannelFail(n, role) ==
    /\ rc_att[n][role] # NoAttempt
    /\ rc_att[n][role].chan = "open"
    /\ LET att == rc_att[n][role]
           unanswered == role = "Passive" /\ att.ans = "wait"
           o == send0(rc_cn[n], att, [kind |-> "Err", error |-> "channel", id |-> Absent])
       IN  /\ StoreReg(n, [rc_reg[n] EXCEPT
                               !.cc = IF unanswered THEN Wrap(Wrap(@ - 1) - 1) ELSE Wrap(@ - 1)])
           /\ rc_cn' = [rc_cn EXCEPT ![n] = o.cn]
           /\ rc_net' = IF unanswered THEN rc_net \cup {Answer(Peer(n), FALSE)} ELSE rc_net
    /\ rc_att' = [rc_att EXCEPT ![n][role] = NoAttempt]
    /\ rc_failed' = TRUE
    /\ UNCHANGED <<rc_chan, rc_started, RaceOthers>>

RcCreateActiveAny == \E n \in RaceNodes : RcCreateActive(n)
RcTryOfferAny == \E n \in RaceNodes : RcTryOffer(n)
RcPassiveAnswerAny == \E n \in RaceNodes : RcPassiveAnswer(n)
RcRecvAnswerAny == \E n \in RaceNodes, ok \in BOOLEAN : RcRecvAnswer(n, ok)
RcHandshakeAny == \E n \in RaceNodes, role \in Roles, ok \in BOOLEAN : RcHandshake(n, role, ok)
RcChannelFailAny == \E n \in RaceNodes, role \in Roles : RcChannelFail(n, role)

RaceNext ==
    \/ RcCreateActiveAny \/ RcTryOfferAny \/ RcPassiveAnswerAny \/ RcRecvAnswerAny
    \/ RcHandshakeAny \/ RcChannelFailAny

(***************************************************************************)
(* Bootstrap reconnector (wdht/src/reconnect.rs) and the broadcast channel *)
(* of transport events it listens to (wdht/src/wrtc/mod.rs)                *)
(***************************************************************************)
\* capacity of the channel of TransportEvent
EventCapacity == 2
\* connector tasks alive at once
MaxTasks == 2

BootId == 1
OtherId == 3
\* the reasons for which the reconnector retries, and one for which it does not
RetryReasons == {"ConnectionLost", "SendFail", "TimeoutExpired"}
DisconnectReasons == RetryReasons \cup {"HalfCloseReplace"}

Connect(id) == [type |-> "Connect", id |-> id, reason |-> None]
Disconnect(id, reason) == [type |-> "Disconnect", id |-> id, reason |-> reason]
Shutdown == [type |-> "Shutdown", id |-> 0, reason |-> None]

\* Sender::try_broadcast: Err(Full) leaves the queue as it is
try_broadcast(queue, ev) ==
    IF Len(queue) >= EventCapacity THEN queue ELSE Append(queue, ev)

\* create_dht: the connector task of the URL is spawned, nothing is connected
BootIdle ==
    /\ bs_link = "down"
    /\ bs_reason = None
    /\ bs_other = "down"
    /\ bs_events = <<>>
    /\ id_to_index = {}
    /\ bs_tasks = 1
    /\ bs_reported = FALSE
    /\ bs_pc = "initial"
    /\ bs_reachable = TRUE
    /\ bs_shutdown = FALSE

BootOthers ==
    <<storageVars, treeVars, searchVars, connVars, raceVars, sendVars, handshakeVars, sliceVars, halfVars, dedupVars, backoffVars, spawnVars,
      adoptVars>>

\* bootstrap_exponential_backoff_connect: one turn of the loop. bootstrap_connect
\* gives Ok(id) when the handshake registers the connection (after_handshake
\* broadcasts Connect and waits for room in the channel) or finds it registered
\* (IdConflict); the task then stores the id and ends. Otherwise it sleeps.
BsAttempt ==
    /\ bs_tasks > 0
    /\ ~bs_shutdown
    /\ bs_reported' = TRUE
    /\ IF bs_reachable /\ bs_link = "up"
       THEN /\ id_to_index' = id_to_index \cup {BootId}
            /\ bs_tasks' = bs_tasks - 1
            /\ UNCHANGED <<bs_link, bs_events>>
       ELSE IF bs_reachable /\ Len(bs_events) < EventCapacity
       THEN /\ bs_link' = "up"
            /\ bs_events' = Append(bs_events, Connect(BootId))
            /\ id_to_index' = id_to_index \cup {BootId}
            /\ bs_tasks' = bs_tasks - 1
       ELSE UNCHANGED <<bs_link, bs_events, id_to_index, bs_tasks>>
    /\ UNCHANGED <<bs_reason, bs_other, bs_pc, bs_reachable, bs_shutdown, BootOthers>>

\* bootstrap_reconnector: join_all over the first reports returns
BsInitialDone ==
    /\ bs_pc = "initial"
    /\ bs_reported
    /\ bs_pc' = "loop"
    /\ UNCHANGED <<bs_link, bs_reason, bs_other, bs_events, id_to_index, bs_tasks,
                   bs_reported, bs_reachable, bs_shutdown, BootOthers>>

\* bootstrap_reconnector: one turn of loop { match events.recv().await }
BsRecv ==
    /\ bs_pc = "loop"
    /\ bs_events # <<>>
    /\ LET ev == Head(bs_events)
       IN  /\ bs_events' = Tail(bs_events)
           /\ IF ev.type = "Disconnect" /\ ev.reason \in RetryReasons /\ ev.id \in id_to_index
              THEN bs_tasks' = Min(bs_tasks + 1, MaxTasks) /\ UNCHANGED bs_pc
              ELSE IF ev.type = "Shutdown"
              THEN bs_pc' = "stopped" /\ UNCHANGED bs_tasks
              ELSE UNCHANGED <<bs_pc, bs_tasks>>
    /\ UNCHANGED <<bs_link, bs_reason, bs_other, id_to_index, bs_reported,
                   bs_reachable, bs_shutdown, BootOthers>>

\* Connections::on_disconnect of the bootstrap peer: the event is dropped when
\* the channel is full
BsLinkLost(reason) ==
    /\ bs_link = "up"
    /\ ~bs_shutdown
    /\ bs_link' = "down"
    /\ bs_reason' = reason
    /\ bs_events' = try_broadcast(bs_events, Disconnect(BootId, reason))
    /\ UNCHANGED <<bs_other, id_to_index, bs_tasks, bs_reported, bs_pc,
                   bs_reachable, bs_shutdown, BootOthers>>

\* another peer connects (after_handshake) or disconnects (on_disconnect)
BsOtherPeer ==
    /\ ~bs_shutdown
    /\ IF bs_other = "down"
       THEN /\ Len(bs_events) < EventCapacity
            /\ bs_other' = "up"
            /\ bs_events' = Append(bs_events, Connect(OtherId))
       ELSE /\ bs_other' = "down"
            /\ bs_events' = try_broadcast(bs_events, Disconnect(OtherId, "ConnectionLost"))
    /\ UNCHANGED <<bs_link, bs_reason, id_to_index, bs_tasks, bs_reported, bs_pc,
                   bs_reachable, bs_shutdown, BootOthers>>

\* the bootstrap server goes away or comes back
BsUrl ==
    /\ bs_reachable' = ~bs_reachable
    /\ UNCHANGED <<bs_link, bs_reason, bs_other, bs_events, id_to_index, bs_tasks,
                   bs_reported, bs_pc, bs_shutdown, BootOthers>>

RECURSIVE broadcast_all(_, _)
broadcast_all(queue, evs) ==
    IF evs = <<>> THEN queue
    ELSE broadcast_all(try_broadcast(queue, Head(evs)), Tail(evs))

\* Connections::shutdown: every connection is disconnected with ShuttingDown,
\* then Shutdown is broadcast; the connector tasks end
BsShutdown ==
    /\ ~bs_shutdown
    /\ bs_shutdown' = TRUE
    /\ bs_link' = "down"
    /\ bs_other' = "down"
    /\ bs_reason' = IF bs_link = "up" THEN "ShuttingDown" ELSE bs_reason
    /\ bs_events' = broadcast_all(bs_events,
                       (IF bs_link = "up" THEN <<Disconnect(BootId, "ShuttingDown")>> ELSE <<>>)
                       \o (IF bs_other = "up" THEN <<Disconnect(OtherId, "ShuttingDown")>> ELSE <<>>)
                       \o <<Shutdown>>)
    /\ bs_tasks' = 0
    /\ UNCHANGED <<id_to_index, bs_reported, bs_pc, bs_reachable, BootOthers>>

BsLinkLostAny == \E r \in DisconnectReasons : BsLinkLost(r)

BootNext ==
    BsAttempt \/ BsInitialDone \/ BsRecv \/ BsLinkLostAny \/ BsOtherPeer \/ BsUrl \/ BsShutdown

(***************************************************************************)
(* Requests on one connection (wdht/src/wrtc/conn.rs)                      *)
(***************************************************************************)
\* requests issued on the connection
MaxRequests == 3

RequestIds == 0..(MaxRequests - 1)
ShutdownReasons == {"ConnectionLost", "TimeoutExpired", "SendFail", "HalfCloseReplace"}
\* the id of the peer at the other end of the connection
SendPeer == 1

\* history of the last handler: nothing to tell
NoSendCall == [op |-> None, id |-> Absent, reason |-> None, waiting |-> {},
               results |-> <<>>]

\* WrtcConnection::new and after_handshake: the channel is open, the listener
\* runs, the registry holds the connection, nothing was sent
SendIdle ==
    /\ next_id = 0
    /\ responses = {}
    /\ channel_open = TRUE
    /\ sr_listening = TRUE
    /\ sr_registered = TRUE
    /\ sr_events = <<>>
    /\ sr_shut = None
    /\ sr_after = {}
    /\ sr_result = [i \in RequestIds |-> None]
    /\ sr_last = NoSendCall

SendOthers ==
    <<storageVars, treeVars, searchVars, connVars, raceVars, bootVars, handshakeVars, sliceVars, halfVars, dedupVars, backoffVars, spawnVars,
      adoptVars>>

\* WrtcConnection::shutdown_local: every waiting request gets Err(ConnectionLost)
shutdown_local(res, waiting) ==
    [i \in RequestIds |-> IF i \in waiting THEN "Err(ConnectionLost)" ELSE res[i]]

\* WrtcConnection::shutdown(reason) with Connections::on_disconnect, and the same
\* steps made by alloc_connection for HalfCloseReplace: the registry drops the
\* peer id, Disconnect is published with try_broadcast, the waiters are drained
WrtcConnection_shutdown(op, reason) ==
    /\ sr_registered' = FALSE
    /\ sr_events' = try_broadcast(sr_events, Disconnect(SendPeer, reason))
    /\ sr_result' = shutdown_local(sr_result, responses)
    /\ responses' = {}
    /\ sr_shut' = IF sr_shut = None THEN reason ELSE sr_shut
    /\ sr_last' = [op |-> op, id |-> Absent, reason |-> reason, waiting |-> responses,
                   results |-> sr_result]

\* WrtcConnection::send_request up to the select: the request is registered and
\* written to the channel; when the write fails the waiter is resolved with
\* Err("Failed to send message".into()), an UnknownError
SrSendRequest ==
    /\ next_id < MaxRequests
    /\ next_id' = next_id + 1
    /\ sr_after' = IF sr_shut # None THEN sr_after \cup {next_id} ELSE sr_after
    /\ \E written \in {w \in BOOLEAN : w => channel_open} :
          IF written
          THEN responses' = responses \cup {next_id} /\ UNCHANGED sr_result
          ELSE /\ sr_result' = [sr_result EXCEPT ![next_id] = "Err(UnknownError)"]
               /\ UNCHANGED responses
    /\ sr_last' = NoSendCall
    /\ UNCHANGED <<channel_open, sr_listening, sr_registered, sr_events, sr_shut,
                   SendOthers>>

\* connection_listen receives a frame WrtcPayload::Res with this id: process_message
\* hands the answer to the waiter of the id; without a waiter it returns
\* Err(UnknownAnswerId), the listener leaves its loop and calls shutdown(ConnectionLost)
SrAnswer(id) ==
    /\ channel_open
    /\ sr_listening
    /\ IF id \in responses
       THEN /\ responses' = responses \ {id}
            /\ sr_result' = [sr_result EXCEPT ![id] = "Ok"]
            /\ sr_last' = [op |-> "answer", id |-> id, reason |-> None,
                           waiting |-> responses, results |-> sr_result]
            /\ UNCHANGED <<sr_listening, sr_registered, sr_events, sr_shut>>
       ELSE /\ sr_listening' = FALSE
            /\ WrtcConnection_shutdown("unknown_answer", "ConnectionLost")
    /\ UNCHANGED <<next_id, channel_open, sr_after, SendOthers>>

\* WrtcConnection::shutdown(reason), from the timeout of a waiting request
\* (TimeoutExpired), from send_response (SendFail), or the registry's
\* on_disconnect and shutdown_local (HalfCloseReplace)
SrShutdown(reason) ==
    /\ reason \in {"TimeoutExpired", "SendFail", "HalfCloseReplace"}
    /\ reason = "TimeoutExpired" => responses # {}
    /\ WrtcConnection_shutdown(IF reason = "HalfCloseReplace" THEN "replace" ELSE "shutdown",
                               reason)
    /\ UNCHANGED <<next_id, channel_open, sr_listening, sr_after, SendOthers>>

\* connection_listen ends: the channel is gone, shutdown(ConnectionLost)
SrListenerEnd ==
    /\ sr_listening
    /\ channel_open
    /\ channel_open' = FALSE
    /\ sr_listening' = FALSE
    /\ WrtcConnection_shutdown("shutdown", "ConnectionLost")
    /\ UNCHANGED <<next_id, sr_after, SendOthers>>

\* a subscriber of the event channel receives the oldest event
SrEventRecv ==
    /\ sr_events # <<>>
    /\ sr_events' = Tail(sr_events)
    /\ sr_last' = NoSendCall
    /\ UNCHANGED <<next_id, responses, channel_open, sr_listening, sr_registered, sr_shut,
                   sr_after, sr_result, SendOthers>>

\* after_handshake of another connection publishes Connect with broadcast().await,
\* which waits for room in the channel
SrOtherEvent ==
    /\ Len(sr_events) < EventCapacity
    /\ sr_events' = Append(sr_events, Connect(OtherId))
    /\ sr_last' = NoSendCall
    /\ UNCHANGED <<next_id, responses, channel_open, sr_listening, sr_registered, sr_shut,
                   sr_after, sr_result, SendOthers>>

SrAnswerAny == \E id \in RequestIds : SrAnswer(id)
SrShutdownAny == \E r \in ShutdownReasons : SrShutdown(r)

SendNext ==
    SrSendRequest \/ SrAnswerAny \/ SrShutdownAny \/ SrListenerEnd \/ SrEventRecv
        \/ SrOtherEvent

(***************************************************************************)
(* Handshake (wdht/src/wrtc/handshake.rs, wdht/src/identity.rs) and the    *)
(* registration that follows it (wdht/src/wrtc/mod.rs)                     *)
(***************************************************************************)
\* public keys that import, and key bytes that do not
PublicKeys == {1, 2}
BadKey == 0
\* certificate fingerprints of channels
Fingerprints == {1, 2}

\* crypto::sign(key, data): only the holder of the key makes it
Signature(key, data) == [signer |-> key, data |-> data]
BadSignature == [signer |-> BadKey, data |-> 0]
Proofs == {Signature(k, f) : k \in PublicKeys, f \in Fingerprints} \cup {BadSignature}

\* crypto::import_pub_key
import_pub_key(key) == key \in PublicKeys

\* crypto::verify
verify(key, signature, data) == signature.signer = key /\ signature.data = data

\* Identity::compute_identity: the hash of the key bytes, truncated to an Id
compute_identity(key) == (3 * key) % Pow2(BITS)

\* Identity::check_identity_proof that does not verify the signature
check_identity_proof_noverify(key, fingerprint, signature) ==
    IF ~import_pub_key(key) THEN Err("()")
    ELSE Ok(compute_identity(key))

\* Identity::check_identity_proof
check_identity_proof(key, fingerprint, signature) ==
    IF ~import_pub_key(key) THEN Err("()")
    ELSE IF ~verify(key, signature, fingerprint) THEN Err("()")
    ELSE Ok(compute_identity(key))

\* what receive_message and serde_json::from_slice give
HandshakeRequests == [kind : {"Request"}, identity : PublicKeys \cup {BadKey}, proof : Proofs]
Received ==
    HandshakeRequests
        \cup {[kind |-> k, identity |-> BadKey, proof |-> BadSignature] :
                 k \in {"ConnectionLost", "OpenedChannel", "Decode"}}

\* a channel: its remote certificate fingerprint and what its calls give
Channels ==
    [remote : Fingerprints, local_ok : BOOLEAN, send_ok : BOOLEAN, remote_ok : BOOLEAN]

\* handshake(conn, identity), msg being what the channel delivers
handshake(conn, msg) ==
    IF ~conn.local_ok THEN Err("Wrtc")
    ELSE IF ~conn.send_ok THEN Err("ConnectionLost")
    ELSE IF msg.kind # "Request" THEN Err(msg.kind)
    ELSE IF ~conn.remote_ok THEN Err("Wrtc")
    ELSE LET r == check_identity_proof(msg.identity, conn.remote, msg.proof)
         IN  IF r.kind = "Ok" THEN r ELSE Err("InvalidIdentity")

NoHandshake ==
    [conn |-> [remote |-> 1, local_ok |-> TRUE, send_ok |-> TRUE, remote_ok |-> TRUE],
     msg |-> [kind |-> None, identity |-> BadKey, proof |-> BadSignature],
     res |-> NoResult, before |-> {}]

HandshakeIdle ==
    /\ hs_connections = <<>>
    /\ hs_last = NoHandshake

HandshakeOthers ==
    <<storageVars, treeVars, searchVars, connVars, raceVars, bootVars, sendVars, sliceVars, halfVars, dedupVars, backoffVars, spawnVars,
      adoptVars>>

\* create_channel_and_register, Ok(channel) arm: handshake, then after_handshake
\* registers the channel under the id unless the attempt is not the last one or
\* the id is connected already
HsAttempt(conn, msg, last) ==
    LET res == handshake(conn, msg)
    IN  /\ hs_last' = [conn |-> conn, msg |-> msg, res |-> res,
                       before |-> DOMAIN hs_connections]
        /\ IF res.kind = "Ok" /\ last /\ res.value \notin DOMAIN hs_connections
           THEN hs_connections' = MapInsert(hs_connections, res.value, conn.remote)
           ELSE UNCHANGED hs_connections
        /\ UNCHANGED HandshakeOthers

\* Connections::on_disconnect: connections.remove(&peer_id)
HsDisconnect(id) ==
    /\ id \in DOMAIN hs_connections
    /\ hs_connections' = MapRemove(hs_connections, id)
    /\ hs_last' = [NoHandshake EXCEPT !.before = DOMAIN hs_connections']
    /\ UNCHANGED HandshakeOthers

HsAttemptAny == \E c \in Channels, msg \in Received, last \in BOOLEAN : HsAttempt(c, msg, last)
HsDisconnectAny == \E id \in DOMAIN hs_connections : HsDisconnect(id)

HandshakeNext == HsAttemptAny \/ HsDisconnectAny

(***************************************************************************)
(* Id::bitslice on the bytes of an Id (dht/src/id.rs)                      *)
(***************************************************************************)
\* bytes of an Id
ID_LEN == 2

ByteValues == {0, 1, 85, 128, 170, 255}
SliceIds == [0..(ID_LEN - 1) -> ByteValues]

\* u8 operators
RECURSIVE And8From(_, _, _)
And8From(a, b, i) ==
    IF i = 8 THEN 0
    ELSE (IF (a \div Pow2(i)) % 2 = 1 /\ (b \div Pow2(i)) % 2 = 1 THEN Pow2(i) ELSE 0)
            + And8From(a, b, i + 1)
And8(a, b) == And8From(a, b, 0)
Not8(a) == 255 - a
Or8(a, b) == a + b - And8(a, b)
Shl8(a, n) == (a * Pow2(n)) % 256
Shr8(a, n) == a \div Pow2(n)
\* u8::wrapping_shl, u8::wrapping_shr: the shift amount is taken modulo 8
wrapping_shl(a, n) == Shl8(a, n % 8)
wrapping_shr(a, n) == Shr8(a, n % 8)

\* Id::bitslice
Id_bitslice(self, index, len) ==
    LET entryi == index \div 8
        bytei == index % 8
        byte == self[entryi]
        firstlen == Min(8, len + bytei) - bytei
        secondlen == len - firstlen
        res == And8(wrapping_shr(byte, 8 - bytei - firstlen),
                    Not8(wrapping_shl(255, firstlen)))
    IN  IF secondlen = 0 THEN res
        ELSE LET byte2l == (bytei + len) - 8
                 byte2 == self[entryi + 1]
             IN  Or8(Shl8(res, secondlen),
                     Shr8(And8(byte2, Not8(Shr8(255, byte2l))), 8 - secondlen))

\* bit i of the Id, bit 0 being the most significant bit of byte 0
IdBit(self, i) == (self[i \div 8] \div Pow2(7 - (i % 8))) % 2

\* the bits index .. index + len - 1 read big-endian
RECURSIVE BitsValue(_, _, _)
BitsValue(self, index, len) ==
    IF len = 0 THEN 0
    ELSE 2 * BitsValue(self, index, len - 1) + IdBit(self, index + len - 1)

SliceIdle ==
    /\ sl_id = [i \in 0..(ID_LEN - 1) |-> 0]
    /\ sl_index = 0
    /\ sl_len = 1
    /\ sl_out = Absent

\* the arguments of one call
SliceInit ==
    /\ sl_id \in SliceIds
    /\ sl_len \in 1..8
    /\ sl_index \in 0..(8 * ID_LEN - sl_len)
    /\ sl_out = Absent

SliceOthers ==
    <<storageVars, treeVars, searchVars, connVars, raceVars, bootVars, sendVars, handshakeVars, halfVars, dedupVars, backoffVars, spawnVars,
      adoptVars>>

SlBitslice ==
    /\ sl_out = Absent
    /\ sl_out' = Id_bitslice(sl_id, sl_index, sl_len)
    /\ UNCHANGED <<sl_id, sl_index, sl_len, SliceOthers>>

SliceNext == SlBitslice

(***************************************************************************)
(* The two ends of one connection and their half-close                     *)
(* (wdht/src/wrtc/conn.rs: on_contact_lost, process_message, shutdown,     *)
(* connection_listen)                                                      *)
(***************************************************************************)
\* the frames a listener receives: the peer's HalfClose request, and the end of
\* the channel (Err(ConnectionLost) or a closed receiver)
HalfClose == "HalfClose"
Closed == "Closed"

\* WrtcConnection::new and after_handshake at one end; dc: on_connect adopted the
\* peer in the routing table. held: a contact holds the object; fifo: the entries
\* of half_closed_connections with the peer's id; sent: HalfClose frames written;
\* reasons: the reasons of the Disconnect events of this end
NewEnd(dc) ==
    [this_half_closed |-> FALSE, other_half_closed |-> FALSE, dont_cleanup |-> dc,
     held |-> TRUE, registered |-> TRUE, listening |-> TRUE, fifo |-> 0, sent |-> 0,
     reasons |-> <<>>]

\* an Orc of the object is left: the registry's or a contact's
Alive(c) == c.registered \/ c.held

\* WrtcConnection::shutdown with Connections::on_disconnect(…, this_half_closed)
End_shutdown(c, reason) ==
    [c EXCEPT !.registered = FALSE,
              !.fifo = IF c.this_half_closed /\ @ > 0 THEN @ - 1 ELSE @,
              !.reasons = Append(@, reason)]

\* on_contact_lost that does not look at dont_cleanup
Hc_on_contact_lost_nocheck(c, open) ==
    IF c.other_half_closed
    THEN [conn |-> End_shutdown(c, "HalfCloseBoth"), frames |-> <<>>]
    ELSE [conn |-> [c EXCEPT !.this_half_closed = TRUE, !.fifo = @ + 1,
                             !.sent = IF open THEN @ + 1 ELSE @],
          frames |-> IF open THEN <<HalfClose>> ELSE <<>>]

\* WrtcConnection::on_contact_lost: [conn, frames]; open: the write of
\* send_half_close succeeds
Hc_on_contact_lost(c, open) ==
    IF c.dont_cleanup THEN [conn |-> c, frames |-> <<>>]
    ELSE IF c.other_half_closed
    THEN [conn |-> End_shutdown(c, "HalfCloseBoth"), frames |-> <<>>]
    ELSE [conn |-> [c EXCEPT !.this_half_closed = TRUE, !.fifo = @ + 1,
                             !.sent = IF open THEN @ + 1 ELSE @],
          frames |-> IF open THEN <<HalfClose>> ELSE <<>>]

\* the HalfClose arm without its shutdown
Hc_half_close_noshutdown(c) == [c EXCEPT !.other_half_closed = TRUE]

\* process_message, WrtcRequest::HalfClose arm
Hc_half_close(c) ==
    LET c1 == [c EXCEPT !.other_half_closed = TRUE]
    IN  IF c.this_half_closed THEN End_shutdown(c1, "HalfCloseBoth") ELSE c1

\* both ends connected, nothing in flight
HalfIdle ==
    /\ hc_conn = [n \in RaceNodes |-> NewEnd(FALSE)]
    /\ hc_net = [n \in RaceNodes |-> <<>>]
    /\ hc_open = TRUE

HalfOthers ==
    <<storageVars, treeVars, searchVars, connVars, raceVars, bootVars, sendVars, handshakeVars, sliceVars, dedupVars, backoffVars, spawnVars,
      adoptVars>>

\* what the listener of an end finds once the channel is down: the frames still
\* on their way and then the end of the channel, or the end of the channel alone
AfterClose(queue) == {Append(queue, Closed), <<Closed>>}

\* the end n is left as c2 after a handler that wrote frames and left own in its
\* queue. When the last Orc of the object is gone the WrtcDataChannel is dropped,
\* which closes the connection: the listener of n ends and the peer's listener
\* is told
HcSettle(n, c2, frames, own) ==
    LET p == Peer(n)
        freed == Alive(hc_conn[n]) /\ ~Alive(c2)
        c3 == IF freed THEN [c2 EXCEPT !.listening = FALSE] ELSE c2
        mine == IF c3.listening THEN own ELSE <<>>
        queue == hc_net[p] \o frames
    IN  /\ hc_conn' = [hc_conn EXCEPT ![n] = c3]
        /\ IF freed /\ hc_open
           THEN /\ hc_open' = FALSE
                /\ IF hc_conn[p].listening
                   THEN \E q \in AfterClose(queue) :
                            hc_net' = [hc_net EXCEPT ![p] = q, ![n] = mine]
                   ELSE hc_net' = [hc_net EXCEPT ![n] = mine]
           ELSE /\ hc_open' = hc_open
                /\ hc_net' = [hc_net EXCEPT ![p] = queue, ![n] = mine]
        /\ UNCHANGED HalfOthers

\* the last contact of the connection of n is dropped
HcContactLost(n) ==
    /\ hc_conn[n].held
    /\ LET r == Hc_on_contact_lost([hc_conn[n] EXCEPT !.held = FALSE], hc_open)
       IN  HcSettle(n, r.conn, r.frames, hc_net[n])

\* connection_listen of n receives the next frame: a HalfClose goes to
\* process_message; at the end of the channel the loop ends and the connection is
\* shut down with ConnectionLost
HcRecv(n) ==
    /\ hc_conn[n].listening
    /\ hc_net[n] # <<>>
    /\ LET c == hc_conn[n]
       IN  IF Head(hc_net[n]) = HalfClose
           THEN HcSettle(n, Hc_half_close(c), <<>>, Tail(hc_net[n]))
           ELSE HcSettle(n, End_shutdown([c EXCEPT !.listening = FALSE], "ConnectionLost"),
                         <<>>, <<>>)

\* the transport between the ends fails (read_loop, DataChannel closed): both
\* listeners are told
HcChannelLost ==
    /\ hc_open
    /\ hc_open' = FALSE
    /\ \E lost \in [RaceNodes -> BOOLEAN] :
          hc_net' = [n \in RaceNodes |->
                        IF ~hc_conn[n].listening THEN <<>>
                        ELSE IF lost[n] THEN <<Closed>> ELSE Append(hc_net[n], Closed)]
    /\ UNCHANGED <<hc_conn, HalfOthers>>

HcContactLostAny == \E n \in RaceNodes : HcContactLost(n)
HcRecvAny == \E n \in RaceNodes : HcRecv(n)

HalfNext == HcContactLostAny \/ HcRecvAny \/ HcChannelLost

(***************************************************************************)
(* The callers that wait for a connection to a peer                        *)
(* (transport/src/wrtc/connector.rs: connect_all, CreatingConnectionSender)*)
(***************************************************************************)
\* model bounds: callers of connect_all, senders the connector hands out
MaxCallers == 2
MaxPending == 3

Callers == 1..MaxCallers
DdChannels == 0..(MaxPending - 1)

\* a caller that has not asked yet
NoCaller == [peer |-> Absent, chan |-> Absent, result |-> NoSent]

\* recv() found the channel closed with nothing queued: expect() panics
RecvClosed == [kind |-> "Closed", error |-> None, id |-> Absent]

\* what an attempt ends with: the contact, an error, or its sender is dropped unsent
AttemptResults(id) ==
    {[kind |-> "Ok", error |-> None, id |-> id],
     [kind |-> "Err", error |-> "channel", id |-> Absent],
     CreatorDropped}

DedupIdle ==
    /\ dd_cn = [connecting |-> <<>>, sender_id |-> 0]
    /\ dd_echan = <<>>
    /\ dd_senders = {}
    /\ dd_chan = [ch \in DdChannels |-> <<>>]
    /\ dd_callers = [c \in Callers |-> NoCaller]

DedupOthers ==
    <<storageVars, treeVars, searchVars, connVars, raceVars, bootVars, sendVars, handshakeVars, sliceVars, halfVars, backoffVars, spawnVars,
      adoptVars>>

\* the channel of the entry of id after the connector gave the sender o
EntryChan(id, o) == IF id \in DOMAIN dd_cn.connecting THEN dd_echan[id] ELSE o.sender

\* CreatingConnectionSender::send / Drop of the sender snd: send0, try_broadcast
\* on a channel of capacity 1, the entry removed when the result was sent
Sender_send(snd, result) ==
    LET o == send0(dd_cn, snd, result)
    IN  /\ dd_cn' = o.cn
        /\ dd_echan' = [x \in DOMAIN o.cn.connecting |-> dd_echan[x]]
        /\ dd_chan' = IF o.sent = NoSent \/ dd_chan[snd.chan] # <<>> THEN dd_chan
                      ELSE [dd_chan EXCEPT ![snd.chan] = <<o.sent>>]

\* WrtcConnector::connect_all for one id: the caller takes the receiver of the
\* pending entry, or makes the entry and starts the attempt, and waits
DdConnect(c, id) ==
    /\ dd_callers[c].peer = Absent \/ dd_callers[c].result # NoSent
    /\ id \notin DOMAIN dd_cn.connecting => dd_cn.sender_id < MaxPending
    /\ LET o == Connector_create_active(dd_cn, ConnSelf, id)
           ch == EntryChan(id, o)
       IN  /\ dd_cn' = o.cn
           /\ dd_echan' = MapInsert(dd_echan, id, ch)
           /\ dd_senders' = IF o.sender = Absent THEN dd_senders
                            ELSE dd_senders \cup {[peer_id |-> id, id |-> o.sender, chan |-> ch]}
           /\ dd_callers' = [dd_callers EXCEPT ![c] = [peer |-> id, chan |-> ch, result |-> NoSent]]
    /\ UNCHANGED <<dd_chan, DedupOthers>>

\* Connections::create_passive for an offer of the peer id: the connector refuses
\* (AlreadyConnecting), or gives a sender that supersedes the pending one; permit:
\* alloc_connection gave a permit, else the sender is dropped at once
DdOffer(id, permit) ==
    /\ dd_cn.sender_id < MaxPending
    /\ LET o == Connector_create_passive(dd_cn, ConnSelf, id)
           ch == EntryChan(id, o)
           snd == [peer_id |-> id, id |-> o.sender, chan |-> ch]
           d == send0(o.cn, snd, CreatorDropped)
       IN  IF o.sender = Absent
           THEN permit /\ UNCHANGED <<dd_cn, dd_echan, dd_senders, dd_chan>>
           ELSE IF permit
           THEN /\ dd_cn' = o.cn
                /\ dd_echan' = MapInsert(dd_echan, id, ch)
                /\ dd_senders' = dd_senders \cup {snd}
                /\ UNCHANGED dd_chan
           ELSE /\ dd_cn' = d.cn
                /\ dd_echan' = [x \in DOMAIN d.cn.connecting |-> dd_echan[x]]
                /\ dd_chan' = IF d.sent = NoSent \/ dd_chan[ch] # <<>> THEN dd_chan
                              ELSE [dd_chan EXCEPT ![ch] = <<d.sent>>]
                /\ UNCHANGED dd_senders
    /\ UNCHANGED <<dd_callers, DedupOthers>>

\* the attempt of the sender snd ends: conn_tx.send(result), or the sender is dropped
DdResolve(snd, result) ==
    /\ snd \in dd_senders
    /\ Sender_send(snd, result)
    /\ dd_senders' = dd_senders \ {snd}
    /\ UNCHANGED <<dd_callers, DedupOthers>>

\* recv.recv().await of the caller c: the result queued on its channel, or Closed
\* when every sender of the channel is gone and nothing is queued
DdRecv(c) ==
    /\ dd_callers[c].peer # Absent /\ dd_callers[c].result = NoSent
    /\ LET ch == dd_callers[c].chan
       IN  \/ /\ dd_chan[ch] # <<>>
              /\ dd_callers' = [dd_callers EXCEPT ![c].result = Head(dd_chan[ch])]
           \/ /\ dd_chan[ch] = <<>>
              /\ \A snd \in dd_senders : snd.chan # ch
              /\ dd_callers' = [dd_callers EXCEPT ![c].result = RecvClosed]
    /\ UNCHANGED <<dd_cn, dd_echan, dd_senders, dd_chan, DedupOthers>>

AllSenders == [peer_id : ConnPeers, id : DdChannels, chan : DdChannels]

DdConnectAny == \E c \in Callers, id \in ConnPeers : DdConnect(c, id)
DdOfferAny == \E id \in ConnPeers, permit \in BOOLEAN : DdOffer(id, permit)
DdResolveOf(snd) == \E result \in AttemptResults(snd.peer_id) : DdResolve(snd, result)
DdResolveAny == \E snd \in AllSenders : DdResolveOf(snd)
DdRecvAny == \E c \in Callers : DdRecv(c)

DedupNext == DdConnectAny \/ DdOfferAny \/ DdResolveAny \/ DdRecvAny

(***************************************************************************)
(* The retries of one bootstrap URL                                        *)
(* (wdht/src/reconnect.rs: bootstrap_exponential_backoff_connect)          *)
(***************************************************************************)
NANOS_PER_SEC == 1000000000
MAX_EXPONENTIAL_BACKOFF_SECS == 5 * 60

\* model bounds: failed attempts in a row; the values of gen_range(0..NANOS_PER_SEC)
\* tried
MaxRetries == 12
JitterSamples == {0, 1, 500000000, NANOS_PER_SEC - 1}

\* the task is spawned: let mut wait_secs = 1u64
BackoffIdle ==
    /\ bo_pc = "connect"
    /\ bo_wait_secs = 1
    /\ bo_retry = 0
    /\ bo_sleep = [secs |-> 0, nanos |-> 0]
    /\ bo_report = None

BackoffOthers ==
    <<storageVars, treeVars, searchVars, connVars, raceVars, bootVars, sendVars, handshakeVars, sliceVars, halfVars, dedupVars, spawnVars,
      adoptVars>>

\* (wait_secs * 2).min(MAX_EXPONENTIAL_BACKOFF_SECS); wait_secs is at most the cap,
\* so the product stays far below the width of u64
next_wait_secs(wait_secs) == Min(wait_secs * 2, MAX_EXPONENTIAL_BACKOFF_SECS)

\* one turn of the loop: connector.upgrade(), bootstrap_connect, the first report,
\* then the return or the new wait_secs and the sleep
BoConnect(alive, ok, nanos) ==
    /\ bo_pc = "connect"
    /\ bo_retry < MaxRetries
    /\ IF ~alive
       THEN bo_pc' = "err" /\ UNCHANGED <<bo_wait_secs, bo_retry, bo_sleep, bo_report>>
       ELSE /\ bo_report' = IF bo_report = None THEN (IF ok THEN "Ok" ELSE "Err")
                            ELSE bo_report
            /\ IF ok
               THEN bo_pc' = "ok" /\ UNCHANGED <<bo_wait_secs, bo_retry, bo_sleep>>
               ELSE /\ bo_wait_secs' = next_wait_secs(bo_wait_secs)
                    /\ bo_sleep' = [secs |-> next_wait_secs(bo_wait_secs), nanos |-> nanos]
                    /\ bo_retry' = bo_retry + 1
                    /\ bo_pc' = "sleep"
    /\ UNCHANGED BackoffOthers

\* sleep(Duration::new(wait_secs, wait_nanos)) returns
BoWake ==
    /\ bo_pc = "sleep"
    /\ bo_pc' = "connect"
    /\ UNCHANGED <<bo_wait_secs, bo_retry, bo_sleep, bo_report, BackoffOthers>>

BoConnectAny == \E alive, ok \in BOOLEAN, nanos \in JitterSamples : BoConnect(alive, ok, nanos)

BackoffNext == BoConnectAny \/ BoWake

(***************************************************************************)
(* Sending without blocking (wasync/src/lib.rs: SenderExt)                 *)
(***************************************************************************)
\* model bounds: capacity of the channel, messages submitted
MsCapacity == 2
MaxMessages == 4

Messages == 1..MaxMessages

\* mpsc::Sender::try_send: "Ok", "Full" or "Closed"
try_send(queue, closed) ==
    IF closed THEN "Closed" ELSE IF Len(queue) >= MsCapacity THEN "Full" ELSE "Ok"

\* the branch maybe_spawn_send takes on an outcome of try_send: the `if let`
\* matches Err(TrySendError::Closed(mex)) alone, any other error drops the message
after_try_send(outcome) ==
    IF outcome = "Ok" THEN "queued" ELSE IF outcome = "Closed" THEN "helper" ELSE "dropped"

SpawnIdle ==
    /\ ms_queue = <<>>
    /\ ms_closed = FALSE
    /\ ms_helpers = {}
    /\ ms_status = [x \in Messages |-> None]

\* no registration is between its two halves
NoPending == [slot |-> 0, id |-> Absent]

AdoptIdle == ad_pending = NoPending

SpawnOthers ==
    <<storageVars, treeVars, searchVars, connVars, raceVars, bootVars, sendVars, handshakeVars, sliceVars, halfVars, dedupVars, backoffVars,
      adoptVars>>

\* SenderExt::maybe_spawn_send(mex); the status keeps whether the channel was
\* open when the message was handed in
MsSend(mex) ==
    /\ ms_status[mex] = None
    /\ \A x \in Messages : x < mex => ms_status[x] # None
    /\ LET branch == after_try_send(try_send(ms_queue, ms_closed))
       IN  /\ ms_queue' = IF branch = "queued" THEN Append(ms_queue, mex) ELSE ms_queue
           /\ ms_helpers' = IF branch = "helper" THEN ms_helpers \cup {mex} ELSE ms_helpers
           /\ ms_status' = [ms_status EXCEPT ![mex] =
                               IF ms_closed THEN "closed" ELSE branch]
    /\ UNCHANGED <<ms_closed, SpawnOthers>>

\* the helper task: this.send(mex).await returns, with the message enqueued or
\* with an error when the channel is closed
MsHelper(mex) ==
    /\ mex \in ms_helpers
    /\ ms_closed \/ Len(ms_queue) < MsCapacity
    /\ ms_helpers' = ms_helpers \ {mex}
    /\ IF ms_closed
       THEN UNCHANGED <<ms_queue, ms_status>>
       ELSE /\ ms_queue' = Append(ms_queue, mex)
            /\ ms_status' = [ms_status EXCEPT ![mex] = "queued"]
    /\ UNCHANGED <<ms_closed, SpawnOthers>>

\* Receiver::recv gives the next message
MsRecv ==
    /\ ~ms_closed
    /\ ms_queue # <<>>
    /\ ms_queue' = Tail(ms_queue)
    /\ ms_status' = [ms_status EXCEPT ![Head(ms_queue)] = "received"]
    /\ UNCHANGED <<ms_closed, ms_helpers, SpawnOthers>>

\* the Receiver is dropped
MsClose ==
    /\ ~ms_closed
    /\ ms_closed' = TRUE
    /\ UNCHANGED <<ms_queue, ms_helpers, ms_status, SpawnOthers>>

MsSendAny == \E mex \in Messages : MsSend(mex)
MsHelperAny == \E mex \in Messages : MsHelper(mex)

SpawnNext == MsSendAny \/ MsHelperAny \/ MsRecv \/ MsClose

UnitIdle == BootIdle /\ SendIdle /\ HandshakeIdle /\ SliceIdle /\ HalfIdle /\ DedupIdle /\ BackoffIdle /\ SpawnIdle /\ AdoptIdle

RaceInit == RaceIdle /\ StorageIdle /\ TreeIdle /\ SearchIdle /\ ConnIdle /\ UnitIdle

(***************************************************************************)
(* Specifications                                                          *)
(***************************************************************************)
InitStorage == StorageInit /\ TreeIdle /\ SearchIdle /\ ConnIdle /\ RaceIdle /\ UnitIdle
SpecStorage == InitStorage /\ [][StorageNext]_vars

InitTree == TreeInit /\ StorageIdle /\ SearchIdle /\ ConnIdle /\ RaceIdle /\ UnitIdle
SpecTree == InitTree /\ [][TreeNext]_vars

InitSearch == SearchIdle /\ StorageIdle /\ TreeIdle /\ ConnIdle /\ RaceIdle /\ UnitIdle
SpecSearch == InitSearch /\ [][SearchNext]_vars

\* every request a search sends resolves (response, error or timeout):
\* the FuturesUnordered of search() yields each pending future
InitQuery == SearchIdle /\ StorageIdle /\ TreeIdle /\ ConnIdle /\ RaceIdle /\ UnitIdle
SpecQueryFair == InitQuery /\ [][QueryNext]_vars /\ WF_vars(SeResponseAny)

InitWindow == SearchIdle /\ StorageIdle /\ TreeIdle /\ ConnIdle /\ RaceIdle /\ UnitIdle
SpecWindow == InitWindow /\ [][WindowNext]_vars

\* the scheduler runs the reconnector and the connector tasks; a connector task
\* retries for ever, and its Connect event gets room in the channel whenever room
\* comes back again and again
BootInit == UnitIdle /\ StorageIdle /\ TreeIdle /\ SearchIdle /\ ConnIdle /\ RaceIdle
SpecBoot == BootInit /\ [][BootNext]_vars
SpecBootFair ==
    SpecBoot /\ SF_vars(BsAttempt) /\ WF_vars(BsInitialDone) /\ WF_vars(BsRecv)

SendInit == UnitIdle /\ StorageIdle /\ TreeIdle /\ SearchIdle /\ ConnIdle /\ RaceIdle
SpecSend == SendInit /\ [][SendNext]_vars
\* the timer of a waiting request fires (sleep of 10 minutes in send_request)
SpecSendFair == SpecSend /\ WF_vars(SrShutdown("TimeoutExpired"))

HandshakeInit == UnitIdle /\ StorageIdle /\ TreeIdle /\ SearchIdle /\ ConnIdle /\ RaceIdle
SpecHandshake == HandshakeInit /\ [][HandshakeNext]_vars

InitSlice ==
    /\ SliceInit
    /\ BootIdle /\ SendIdle /\ HandshakeIdle /\ HalfIdle /\ DedupIdle /\ BackoffIdle /\ SpawnIdle /\ AdoptIdle
    /\ StorageIdle /\ TreeIdle /\ SearchIdle /\ ConnIdle /\ RaceIdle
SpecSlice == InitSlice /\ [][SliceNext]_vars

\* the two ends are connected; each peer is in the other's routing table or not
HalfInit ==
    /\ BootIdle /\ SendIdle /\ HandshakeIdle /\ SliceIdle /\ DedupIdle /\ BackoffIdle /\ SpawnIdle /\ AdoptIdle
    /\ StorageIdle /\ TreeIdle /\ SearchIdle /\ ConnIdle /\ RaceIdle
    /\ \E dc \in [RaceNodes -> BOOLEAN] : hc_conn = [n \in RaceNodes |-> NewEnd(dc[n])]
    /\ hc_net = [n \in RaceNodes |-> <<>>]
    /\ hc_open = TRUE
SpecHalf == HalfInit /\ [][HalfNext]_vars
\* the listeners run: a frame that arrived is received
SpecHalfFair == SpecHalf /\ \A n \in RaceNodes : WF_vars(HcRecv(n))

DedupInit ==
    /\ SendIdle /\ BootIdle /\ HandshakeIdle /\ SliceIdle /\ HalfIdle /\ BackoffIdle /\ SpawnIdle /\ AdoptIdle
    /\ StorageIdle /\ TreeIdle /\ SearchIdle /\ ConnIdle /\ RaceIdle
    /\ DedupIdle
SpecDedup == DedupInit /\ [][DedupNext]_vars
\* every attempt ends (its task sends the result or drops the sender) and a
\* caller that waits takes what is queued for it
SpecDedupFair ==
    /\ SpecDedup
    /\ \A snd \in AllSenders : WF_vars(DdResolveOf(snd))
    /\ \A c \in Callers : WF_vars(DdRecv(c))

BackoffInit ==
    /\ SendIdle /\ BootIdle /\ HandshakeIdle /\ SliceIdle /\ HalfIdle /\ DedupIdle /\ SpawnIdle /\ AdoptIdle
    /\ StorageIdle /\ TreeIdle /\ SearchIdle /\ ConnIdle /\ RaceIdle
    /\ BackoffIdle
SpecBackoff == BackoffInit /\ [][BackoffNext]_vars

SpawnInit ==
    /\ SendIdle /\ BootIdle /\ HandshakeIdle /\ SliceIdle /\ HalfIdle /\ DedupIdle /\ BackoffIdle /\ AdoptIdle
    /\ StorageIdle /\ TreeIdle /\ SearchIdle /\ ConnIdle /\ RaceIdle
    /\ SpawnIdle
SpecSpawn == SpawnInit /\ [][SpawnNext]_vars
\* the receiver keeps receiving and the helper tasks run
SpecSpawnFair == SpecSpawn /\ WF_vars(MsRecv) /\ WF_vars(MsHelperAny)

InitInsert == SearchIdle /\ StorageIdle /\ TreeIdle /\ ConnIdle /\ RaceIdle /\ UnitIdle
SpecInsert == InitInsert /\ [][InsertNext]_vars

\* the node before any connection: Connections::create, WrtcConnector::new
ConnInit ==
    /\ ConnIdle
    /\ RaceIdle
    /\ UnitIdle
    /\ StorageIdle
    /\ SearchIdle
    /\ tree_id = ConnSelf
    /\ nodes = [e \in EntryIdx |-> [b \in BucketIdx |-> EmptyBucket]]
    /\ size = 0
    /\ tr_last = NoCall
    /\ routing_limit = conn_routing_count

SpecConn == ConnInit /\ [][ConnNext]_vars

SpecRace == RaceInit /\ [][RaceNext]_vars

\* a node that two peers connected to one after the other: the first is in the routing
\* table, which is full with it, the second is not; both contacts are still held
TwoConnected(first, second) ==
    LET r == KTree_insert(ConnSelf, [e \in EntryIdx |-> [b \in BucketIdx |-> EmptyBucket]],
                          0, first)
    IN  /\ connections =
               (first :> [NewConn(first) EXCEPT !.registered = TRUE, !.held = TRUE,
                                               !.dont_cleanup = TRUE])
            @@ (second :> [NewConn(second) EXCEPT !.registered = TRUE, !.held = TRUE])
        /\ connection_count = 2
        /\ connected_count = 2
        /\ half_closed_count = 0
        /\ half_closed_connections = <<>>
        /\ detached = {}
        /\ nodes = r[2]
        /\ size = r[3]
        /\ attempts = [a \in Slots |-> NoAttempt]
        /\ connecting = <<>>
        /\ is_shutting_down = FALSE

\* the connections come and go, with nothing else happening at the node
EvictNext ==
    \/ CnCreateActiveAny \/ CnHandshakeAny \/ CnChannelFailAny
    \/ CnListenerEndAny \/ CnContactLostAny

EvictInit ==
    /\ routing_limit = conn_routing_count
    /\ tree_id = ConnSelf
    /\ tr_last = NoCall
    /\ \E first \in ConnPeers : \E second \in ConnPeers \ {first} : TwoConnected(first, second)
    /\ sender_id = 0
    /\ cn_last = NoConnCall
    /\ admitted = 0
    /\ RaceIdle
    /\ UnitIdle
    /\ StorageIdle
    /\ SearchIdle

SpecEvict == EvictInit /\ [][EvictNext]_vars

(***************************************************************************)
(* Storage claims                                                          *)
(***************************************************************************)
PublisherCount(list, p) == Cardinality({i \in DOMAIN list : list[i].publisher = p})

RECURSIVE SumLens(_, _)
SumLens(tp, keys) ==
    IF keys = {} THEN 0
    ELSE LET k == CHOOSE x \in keys : TRUE
         IN  Len(tp[k]) + SumLens(tp, keys \ {k})

\* C1: every topic list holds at most one entry per publisher, and that entry
\* carries the data of the most recent successful insert for (topic, publisher).
C1_OneEntryPerPublisher ==
    \A t \in DOMAIN topics : \A p \in Publishers :
        /\ PublisherCount(topics[t], p) <= 1
        /\ \A i \in DOMAIN topics[t] :
              topics[t][i].publisher = p => topics[t][i].data = st_last[<<t, p>>]

\* C1 witness: a successful insert replaced an existing entry while another entry is stored
C1_Witness ==
    /\ st_res.op = "insert" /\ st_res.res = "Ok" /\ st_res.had
    /\ entry_count = 2

\* C2 (as claimed): after periodic_run at time now, no stored entry has a deadline <= now.
C2_NoExpiredAfterPeriodicRun ==
    st_res.op = "periodic_run" =>
        \A t \in DOMAIN topics : \A i \in DOMAIN topics[t] :
            LET key == <<t, topics[t][i].publisher>>
            IN  key \in DOMAIN deadlines => deadlines[key] > now

RECURSIVE TableEntriesFrom(_, _)
TableEntriesFrom(nd, e) ==
    IF e > BITS - 1 THEN {}
    ELSE UNION {Range(nd[e][b].entries) : b \in DOMAIN nd[e]} \cup TableEntriesFrom(nd, e + 1)

TableEntries == TableEntriesFrom(nodes, 0)

\* res lists the min(n, |table|) ids of the table closest to t, nearest first
IsClosestN(res, table, t, n) ==
    /\ Len(res) = Min(n, Cardinality(table))
    /\ Range(res) \subseteq table
    /\ \A i \in 1..(Len(res) - 1) : Xor(t, res[i]) < Xor(t, res[i + 1])
    /\ \A x \in table \ Range(res) : \A y \in Range(res) : Xor(t, y) < Xor(t, x)

\* C8 (as claimed): for every table content, target t and n, get_closer_n(t, n) is the
\* list of the min(n, entries) ids of the table minimising t xor id, nearest first.
C8_CloserNIsClosest ==
    \A t \in Ids : \A n \in 0..bucket_size :
        IsClosestN(get_closer_n(tree_id, nodes, t, n), TableEntries, t, n)

\* C9 (as claimed): refresh_node(id) of an id in entries moves it to the last position,
\* keeps the order of the others and returns true; otherwise it returns false and
\* leaves the bucket unchanged.
C9_RefreshMovesToBack ==
    tr_last.op = "refresh" =>
        LET pre == tr_last.pre
            cur == get_bucket(tree_id, nodes, tr_last.id)
        IN  IF tr_last.id \in Range(pre.entries)
            THEN /\ tr_last.ret
                 /\ cur.entries =
                      Append(SelectSeq(pre.entries, LAMBDA x : x # tr_last.id), tr_last.id)
                 /\ cur.replacement_cache = pre.replacement_cache
            ELSE ~tr_last.ret /\ cur = pre

(***************************************************************************)
(* Claims about the orchestrator (SpecSearch)                              *)
(***************************************************************************)
\* C10: KademliaDht::insert returns the number of nodes that stored the value, and
\* that number never exceeds k = bucket_size.
\* The window of the search starts as get_closer_bucket (up to k contacts) plus the
\* node itself and is cut to k only in the FoundNodes arm, so a search whose peers
\* never answer FoundNodes hands k + 1 nodes to insert, and all of them can store.
C10_InsertCountAtMostK ==
    (se_pc = "done" /\ se_call.op = "insert" /\ se_result.kind = "Ok")
        => se_result.value <= bucket_size

(***************************************************************************)
(* Claims about the connection registry (SpecConn)                         *)
(***************************************************************************)
\* the attempts whose channel task still runs: each took a permit in alloc_connection
PermitHolders == {a \in Slots : attempts[a] # NoAttempt /\ attempts[a].chan = "open"}
LiveConnections == Cardinality(DOMAIN connections) + Cardinality(PermitHolders)

\* C4: with max_connections = N, under every interleaving of active and passive attempts,
\* handshake outcomes, half-closes, evictions, timeouts and disconnects, the registered
\* connections plus the attempts that hold a permit never number more than N.
C4_LiveAtMostMax == LiveConnections <= max_connections

\* the registry is at its limit and a registered connection was half-closed by this side
AtLimitWithHalfClosed ==
    /\ ~is_shutting_down
    /\ connection_count = max_connections
    /\ half_closed_count > 0
    /\ \E p \in DOMAIN connections : connections[p].this_half_closed

\* the step is a create_active or create_passive that reached alloc_connection
AllocStep ==
    /\ cn_last'.op \in {"create_active", "create_passive", "try_offer"}
    /\ cn_last'.ok \in {"Ok", "ConnectionLimitReached"}

\* C5 (as claimed): an alloc_connection at the limit with a connection half-closed by this
\* side admits the attempt, the connection at the front of the half-closed queue leaves the
\* registry, Disconnect(id, HalfCloseReplace) is emitted and connection_count is unchanged.
C5_EvictsFrontOfFifo ==
    [][(AtLimitWithHalfClosed /\ AllocStep) =>
          /\ cn_last'.ok = "Ok"
          /\ half_closed_connections # <<>>
          /\ Head(half_closed_connections) \in DOMAIN connections
          /\ connections[Head(half_closed_connections)].this_half_closed
          /\ Head(half_closed_connections) \notin DOMAIN connections'
          /\ cn_last'.events = <<[kind |-> "Disconnect",
                                  id |-> Head(half_closed_connections),
                                  reason |-> "HalfCloseReplace"]>>
          /\ connection_count' = connection_count]_vars

\* C7 (as claimed): a handshake that completes for an id already registered leaves the
\* registered connection in the registry, and the waiters of the attempt receive a contact
\* of that connection, not an error.
C7_ConflictGivesExistingContact ==
    (cn_last.op = "after_handshake" /\ cn_last.ok = "IdConflict") =>
        /\ cn_last.arg \in DOMAIN connections
        /\ cn_last.sent.kind = "Ok"
        /\ cn_last.sent.id = cn_last.arg

(***************************************************************************)
(* Simultaneous open claims                                                *)
(***************************************************************************)
\* no offer or answer is on its way and no attempt is in flight
RaceResolved ==
    /\ rc_net = {}
    /\ \A n \in RaceNodes, r \in Roles : rc_att[n][r] = NoAttempt

\* both nodes started an active attempt to the other
BothStarted == \A n \in RaceNodes : rc_started[n] = "started"

TwoConnectedReached == \E first, second \in ConnPeers : first # second /\ TwoConnected(first, second)

\* C11: KademliaDht::insert never aborts: whatever the local storage and the
\* peers answer, the call returns a count or an error value and does not panic.
C11_InsertNeverPanics == se_pc # "panicked"

C13_HeadNeverFarther ==
    [][se_pc = "searching" =>
          Xor(Head(to_query').id, se_call.target) <= Xor(Head(to_query).id, se_call.target)]_vars

\* one request at a time: the head has not answered yet although a farther peer
\* behind it has, so a response put the head in front
C13_Witness ==
    /\ se_pc = "searching"
    /\ se_call.parallelism = 1
    /\ Head(to_query).state # Queried
    /\ \E j \in 2..Len(to_query) :
          /\ to_query[j].state = Queried
          /\ to_query[j].id # tree_id
          /\ Xor(Head(to_query).id, se_call.target) < Xor(to_query[j].id, se_call.target)

\* C20: when a search returns, every entry of the final window is Queried: no
\* contact that is still Waiting or Querying is returned.
C20_FinalWindowQueried ==
    (se_pc = "done" /\ se_call.op \in {"query_nodes", "query_value"}
        /\ se_result.kind = "Ok" /\ to_query # <<>>)
    => \A j \in DOMAIN to_query : to_query[j].state = Queried

\* C14: when the URL stays reachable, a bootstrap peer lost with reason
\* ConnectionLost, SendFail or TimeoutExpired is connected again, unless the
\* node shuts down.
C14_BootstrapReconnects ==
    (<>[]bs_reachable) =>
        []((bs_link = "down" /\ bs_reason \in RetryReasons) => <>(bs_link = "up" \/ bs_shutdown))

\* C15: a send_request issued on a connection object after its shutdown returns
\* Err(ConnectionLost), whatever the reason of the shutdown.
C15_SendAfterShutdownIsLost ==
    \A id \in sr_after : sr_result[id] \in {None, "Err(ConnectionLost)"}

\* the buckets of the routing table
AllBuckets == {nodes[e][b] : e \in EntryIdx, b \in BucketIdx}
BucketIds(k) == Range(k.entries) \cup Range(k.replacement_cache)

\* C16: after any sequence of insert, remove and refresh_node a bucket holds at
\* most bucket_size entries and at most bucket_replacement_size cached ids, and
\* no id twice across the two lists.
C16_BucketBounds ==
    \A k \in AllBuckets :
        /\ Len(k.entries) <= bucket_size
        /\ Len(k.replacement_cache) <= bucket_replacement_size
        /\ Cardinality(BucketIds(k)) = Len(k.entries) + Len(k.replacement_cache)

\* a remove from a full bucket with a full cache has promoted the cached id
C16_Witness ==
    /\ tr_last.op = "remove"
    /\ tr_last.ret
    /\ Len(tr_last.pre.entries) = bucket_size
    /\ Len(tr_last.pre.replacement_cache) = bucket_replacement_size
    /\ tr_last.id \in Range(tr_last.pre.entries)
    /\ \E k \in AllBuckets :
          /\ Len(k.entries) = bucket_size
          /\ k.entries[bucket_size] = tr_last.pre.replacement_cache[1]

\* the ids of the routing table, counted list by list
RECURSIVE CountIds(_)
CountIds(S) ==
    IF S = {} THEN 0
    ELSE LET x == CHOOSE y \in S : TRUE
         IN  Len(nodes[x[1]][x[2]].entries) + Len(nodes[x[1]][x[2]].replacement_cache)
                + CountIds(S \ {x})

\* C17: the routing table never holds the node's own id, its size is the number
\* of ids in its buckets (entries and replacement caches), and the size never
\* exceeds max_routing_count.
C17_TreeSize ==
    /\ \A k \in AllBuckets : tree_id \notin BucketIds(k)
    /\ size = CountIds(EntryIdx \X BucketIdx)
    /\ size <= max_routing_count

\* an insert refused because the table holds max_routing_count ids
C17_Witness ==
    /\ size = max_routing_count
    /\ tr_last.op = "insert"
    /\ ~tr_last.ret
    /\ tr_last.id # tree_id
    /\ tr_last.id \notin BucketIds(tr_last.pre)
    /\ \E k \in AllBuckets : k.replacement_cache # <<>>

\* C18: a connection is registered under id X only if the handshake of its
\* channel received a key whose hash is X and a signature, valid under that key,
\* over the remote certificate fingerprint of that channel; a handshake that
\* fails registers nothing.
C18_RegisteredOnlyWithProof ==
    /\ hs_last.res.kind = "Err" => DOMAIN hs_connections = hs_last.before
    /\ \A id \in DOMAIN hs_connections \ hs_last.before :
          /\ hs_last.msg.kind = "Request"
          /\ import_pub_key(hs_last.msg.identity)
          /\ compute_identity(hs_last.msg.identity) = id
          /\ hs_last.msg.proof = Signature(hs_last.msg.identity, hs_last.conn.remote)
          /\ hs_connections[id] = hs_last.conn.remote

\* a handshake has registered a second connection
C18_Witness ==
    /\ hs_last.res.kind = "Ok"
    /\ hs_last.res.value \in DOMAIN hs_connections \ hs_last.before
    /\ hs_last.before # {}

\* C19: bitslice(i, n), 1 <= n <= 8 and i + n within the Id, is the value of the
\* bits i .. i+n-1 read big-endian, within one byte or over two.
C19_BitsliceIsBits ==
    sl_out # Absent => sl_out = BitsValue(sl_id, sl_index, sl_len)

(***************************************************************************)
(* Claims about the window of a search (SpecWindow)                        *)
(***************************************************************************)
\* C21: at every step of a search, from the seeding onward, to_query holds at
\* most bucket_size entries, and query_nodes returns at most bucket_size contacts.
\* The window is seeded with get_closer_bucket (up to bucket_size contacts) chained
\* with the node itself, and truncate runs only in the FoundNodes arm.
C21_WindowAtMostK ==
    /\ Len(to_query) <= bucket_size
    /\ (se_pc = "done" /\ se_call.op = "query_nodes" /\ se_result.kind = "Ok")
          => Len(se_result.value) <= bucket_size

WindowIds(w) == {w[j].id : j \in DOMAIN w}

\* C22: within one search an id enters the window at most once: a step adds to
\* the window only ids that were not yet in queried (so an id truncated out never
\* comes back), the window holds no id twice, no id is sent more than one
\* request and none is sent to the node's own id.
C22_EachIdOnce ==
    /\ [](\A i, j \in DOMAIN to_query : to_query[i].id = to_query[j].id => i = j)
    /\ [](\A id \in Ids : se_sent[id] <= 1)
    /\ [](se_sent[tree_id] = 0)
    /\ [](WindowIds(to_query) \subseteq queried)
    /\ [][se_pc = "searching" =>
            \A id \in WindowIds(to_query') \ WindowIds(to_query) : id \notin queried]_vars

\* an id was truncated out of the window, the search goes on and requests were sent
C22_Witness ==
    /\ se_pc = "searching"
    /\ queried \ WindowIds(to_query) # {}
    /\ \E id \in Ids : se_sent[id] = 1 /\ id \notin WindowIds(to_query)
    /\ \E j \in DOMAIN to_query : to_query[j].state = Querying

\* C23: the number of requests in flight never exceeds options.parallelism;
\* available_futures counts the room left.
C23_InFlightAtMostAlpha ==
    se_pc = "searching" =>
        /\ Len(pending) <= se_call.parallelism
        /\ Len(pending) + available_futures = se_call.parallelism

\* all the futures are in use after responses have been handled, one entry waits
C23_Witness ==
    /\ se_pc = "searching"
    /\ se_call.parallelism = MaxParallelism
    /\ Len(pending) = MaxParallelism
    /\ \E j \in DOMAIN to_query : to_query[j].state = Queried /\ to_query[j].id # tree_id
    /\ \E j \in DOMAIN to_query : to_query[j].state = Waiting

(***************************************************************************)
(* Claims about the deadline queue of the storage (SpecStorage)            *)
(***************************************************************************)
\* C24: after any sequence of insert, remove and periodic_run the deadline queue
\* holds one record (topic, publisher) for each stored entry and no record for
\* an entry that is not stored (the queue keeps one priority per item).
C24_DeadlinesMatchEntries ==
    /\ DOMAIN deadlines = {k \in Topics \X Publishers : HasEntry(topics, k[1], k[2])}
    /\ Cardinality(DOMAIN deadlines) = SumLens(topics, DOMAIN topics)

\* periodic_run has just removed the two entries stored, and their records
C24_Witness ==
    /\ st_res.op = "periodic_run"
    /\ st_res.pre >= 2
    /\ entry_count = 0
    /\ deadlines = <<>>

(***************************************************************************)
(* Claims about the requests of one connection (SpecSend, SpecSendFair)    *)
(***************************************************************************)
\* C25: every send_request returns in the end, and what it returns is the peer's
\* reply or Err(ConnectionLost) (after a shutdown, or after the timeout, which
\* shuts the connection down with TimeoutExpired).
C25_SendRequestReturns ==
    /\ [](\A id \in RequestIds : sr_result[id] \in {None, "Ok", "Err(ConnectionLost)"})
    /\ [](sr_last.reason = "TimeoutExpired" =>
            \A id \in sr_last.waiting : sr_result[id] = "Err(ConnectionLost)")
    /\ \A id \in RequestIds : (id < next_id) ~> (sr_result[id] # None)

\* what shutdown leaves behind: no waiter, every request that waited resolved with
\* Err(ConnectionLost), no registry entry, and the Disconnect event published last
AfterShutdown ==
    /\ responses = {}
    /\ \A id \in sr_last.waiting : sr_result[id] = "Err(ConnectionLost)"
    /\ ~sr_registered
    /\ sr_events # <<>>
    /\ sr_events[Len(sr_events)] = Disconnect(SendPeer, sr_last.reason)

\* C26: when WrtcConnection::shutdown(reason) has completed, in_flight is empty,
\* every waiter that was pending has resolved with ConnectionLost, the registry
\* holds no entry for the peer id and Disconnect(id, reason) has been emitted.
C26_ShutdownPostcondition ==
    sr_last.op = "shutdown" => AfterShutdown

\* C27: a response frame whose id has no waiter terminates the connection (no
\* registry entry, the pending waiters resolved with ConnectionLost, a Disconnect
\* event emitted); a response whose waiter exists is delivered to that waiter
\* and to no other.
C27_ResponseDelivery ==
    /\ sr_last.op = "unknown_answer" => AfterShutdown
    /\ sr_last.op = "answer" =>
          /\ sr_last.id \in sr_last.waiting
          /\ sr_result[sr_last.id] = "Ok"
          /\ responses = sr_last.waiting \ {sr_last.id}
          /\ \A o \in RequestIds \ {sr_last.id} : sr_result[o] = sr_last.results[o]

(***************************************************************************)
(* Claims about half-close (SpecHalfFair, SpecHalf)                        *)
(***************************************************************************)
\* the end n reported the reason r in a Disconnect event
Reported(n, r) == \E i \in DOMAIN hc_conn[n].reasons : hc_conn[n].reasons[i] = r

\* the end n has signalled: it set its flag and wrote its HalfClose frame, or it
\* dropped its last contact after the peer's frame had arrived
Signalled(n) ==
    \/ hc_conn[n].this_half_closed /\ hc_conn[n].sent > 0
    \/ hc_conn[n].other_half_closed /\ ~hc_conn[n].held /\ ~hc_conn[n].dont_cleanup

C29_DontCleanupKeepsConnection ==
    [][\A n \in RaceNodes :
          (hc_conn[n].dont_cleanup /\ hc_conn[n].held /\ ~hc_conn'[n].held)
              => /\ hc_conn'[n] = [hc_conn[n] EXCEPT !.held = FALSE]
                 /\ hc_conn'[n].registered = hc_conn[n].registered
                 /\ hc_net' = hc_net]_vars

\* the last contact of a connection in the routing table was dropped after the
\* peer's HalfClose had arrived, and the connection is still registered
C29_Witness ==
    \E n \in RaceNodes :
        /\ hc_conn[n].dont_cleanup /\ ~hc_conn[n].held
        /\ hc_conn[n].other_half_closed
        /\ hc_conn[n].registered /\ hc_conn[n].listening
        /\ hc_conn[n].fifo = 0 /\ hc_conn[n].sent = 0

(***************************************************************************)
(* Claims about the half-closed queue of the registry (SpecConn)           *)
(***************************************************************************)
\* C30: in every state, half_closed_count is the length of
\* half_closed_connections, no id is twice in the queue, and every id in it is
\* a registered connection that this side has half-closed; the counter never
\* wraps below zero.
C30_HalfClosedAccounting ==
    /\ half_closed_count = Len(half_closed_connections)
    /\ \A i, j \in DOMAIN half_closed_connections :
          half_closed_connections[i] = half_closed_connections[j] => i = j
    /\ \A i \in DOMAIN half_closed_connections :
          /\ half_closed_connections[i] \in DOMAIN connections
          /\ connections[half_closed_connections[i]].this_half_closed

(***************************************************************************)
(* Claims about the admission of an offer (SpecConn)                       *)
(***************************************************************************)
\* the step is the handling of a TryOffer request
TryOfferStep == cn_last'.op = "try_offer"

\* the attempts in progress and the permits are as they were
NoAttemptStarted ==
    /\ attempts' = attempts
    /\ connection_count' = connection_count
    /\ connecting' = connecting
    /\ connections' = connections

\* C31 as stated: a TryOffer(from, offer) is accepted if and only if no
\* connection to from is registered; when one is registered it is answered
\* with an error, no attempt is started and no permit is taken.
C31_Original ==
    [][TryOfferStep =>
          /\ (cn_last'.ok = "Ok") <=> (cn_last'.arg \notin DOMAIN connections)
          /\ (cn_last'.arg \in DOMAIN connections) => NoAttemptStarted]_vars

\* C31: a TryOffer(from, offer) is accepted only if no connection to from is
\* registered; when one is registered it is answered with already_connected,
\* no attempt is started and no permit is taken. With no connection
\* registered it is passed to create_passive, which may still refuse it
\* (AlreadyConnecting, ConnectionLimitReached).
C31_TryOfferAdmission ==
    [][TryOfferStep =>
          /\ (cn_last'.ok = "Ok") => (cn_last'.arg \notin DOMAIN connections)
          /\ (cn_last'.arg \in DOMAIN connections)
                => (cn_last'.ok = "already_connected" /\ NoAttemptStarted)
          /\ (cn_last'.arg \notin DOMAIN connections)
                => cn_last'.ok \in {"Ok", "AlreadyConnecting", "ConnectionLimitReached"}]_vars

\* a TryOffer for a registered peer has just been refused
C31_Witness ==
    /\ cn_last.op = "try_offer"
    /\ cn_last.ok = "already_connected"
    /\ cn_last.arg \in DOMAIN connections

(***************************************************************************)
(* Claims about the callers of one peer id (SpecDedupFair)                 *)
(***************************************************************************)
\* the caller c waits for its result
CallerWaits(c) == dd_callers[c].peer # Absent /\ dd_callers[c].result = NoSent

C33_BackoffSchedule ==
    bo_pc = "sleep" =>
        /\ bo_sleep.secs = Min(Pow2(bo_retry - 1), 300)
        /\ bo_sleep.nanos < NANOS_PER_SEC
        /\ bo_sleep.secs <= 300

(***************************************************************************)
(* Claims about maybe_spawn_send (SpecSpawnFair)                           *)
(***************************************************************************)
\* C34: a message handed to maybe_spawn_send while the channel is full is not
\* dropped, and every message handed to an open channel is received in the
\* end (unless the receiver goes away first).
C34_NoMessageDropped ==
    /\ [](\A x \in Messages : ms_status[x] # "dropped")
    /\ \A x \in Messages :
          (ms_status[x] \in {"queued", "helper", "dropped"})
              ~> (ms_status[x] = "received" \/ ms_closed)

(***************************************************************************)
(* Claims about the permits of the registry (SpecConn)                     *)
(***************************************************************************)
\* the attempts whose channel task still runs (their permit is not given back)
AttemptsInProgress == {a \in Slots : attempts[a] # NoAttempt /\ attempts[a].chan = "open"}

\* C35: connection_count is the number of registered connections plus the
\* number of attempts in progress, and connected_count never exceeds it (no
\* permit is released twice or kept, no counter wraps below zero).
C35_PermitAccounting ==
    /\ connection_count = Cardinality(DOMAIN connections) + Cardinality(AttemptsInProgress)
    /\ connected_count <= connection_count

(***************************************************************************)
(* Claims about the teardown of a connection (SpecConn)                    *)
(***************************************************************************)
\* C36: a connection is torn down at most once, so the counters of the
\* registry go down by one only in a step that takes one registered
\* connection out of the registry (a second shutdown of the same connection
\* decrements them with nothing to remove).
C36_TornDownOnce ==
    [][(connected_count' = Wrap(connected_count - 1)
            \/ (connection_count' = Wrap(connection_count - 1) /\ attempts' = attempts))
        => \E id \in DOMAIN connections :
              DOMAIN connections' = DOMAIN connections \ {id}]_vars

(***************************************************************************)
(* Claims about the eviction of a connection (SpecConn)                    *)
(***************************************************************************)
\* C37: a connection that alloc_connection takes out of the registry to make
\* room is half-closed by this side, not used by the routing table and has no
\* live contact.
C37_EvictsOnlyHalfClosed ==
    [][AllocStep =>
          \A id \in DOMAIN connections :
              id \notin DOMAIN connections' =>
                  /\ connections[id].this_half_closed
                  /\ ~connections[id].dont_cleanup
                  /\ ~connections[id].held]_vars

(***************************************************************************)
(* after_handshake in its two halves: the registry lock is released        *)
(* between connections.insert and dht.on_connect, and the listener task of *)
(* the new connection (spawned by WrtcConnection::new on the multi-thread  *)
(* runtime) runs beside it                                                 *)
(***************************************************************************)
\* the object of the registration in progress: registered, or kept alive by
\* the `connection` local of after_handshake (held stands for that Orc, which
\* becomes the contact sent to the waiters)
PendingObject ==
    IF ad_pending.id \in DOMAIN connections THEN connections[ad_pending.id]
    ELSE CHOOSE d \in detached : d.peer_id = ad_pending.id

\* after_handshake up to the end of the block holding the registry lock, on
\* the path that registers the connection
AdRegister(a, id) ==
    /\ ad_pending = NoPending
    /\ attempts[a] # NoAttempt
    /\ attempts[a].chan = "open" /\ attempts[a].ans = "got"
    /\ id \in ConnPeers
    /\ attempts[a].peer_id \in {Absent, id}
    /\ is_last(ConnectorState, attempts[a])
    /\ id \notin DOMAIN connections
    /\ LET conn == [NewConn(id) EXCEPT !.registered = TRUE, !.held = TRUE]
           s == [RegState EXCEPT !.cdc = Wrap(@ + 1), !.conns = MapInsert(@, id, conn)]
       IN  SetReg(s)
    /\ attempts' = [attempts EXCEPT ![a].chan = "registered"]
    /\ ad_pending' = [slot |-> a, id |-> id]
    /\ cn_last' = NoConnCall
    /\ UNCHANGED <<is_shutting_down, connecting, sender_id, admitted, storageVars,
                   searchVars, raceVars, bootVars, sendVars, handshakeVars, sliceVars,
                   halfVars, dedupVars, backoffVars, spawnVars, tree_id, tr_last,
                   routing_limit>>

\* the rest of after_handshake: on_connect, set_dont_cleanup, conn_tx.send, Connect
AdAdopt ==
    /\ ad_pending # NoPending
    /\ LET a == ad_pending.slot
           id == ad_pending.id
           c == PendingObject
           r == KTree_insert(tree_id, nodes, size, id)
           s1 == SetObj(RegState, c, [c EXCEPT !.dont_cleanup = r[1]])
           s2 == [s1 EXCEPT !.nodes = r[2], !.size = r[3],
                            !.events = Append(@, [kind |-> "Connect", id |-> id,
                                                  reason |-> None])]
           o == send0(ConnectorState, attempts[a], [kind |-> "Ok", error |-> None, id |-> id])
       IN  /\ SetReg(s2)
           /\ SetConnector(o.cn)
           /\ cn_last' = ConnCall("after_handshake", id, "Ok", o.sent, s2)
           /\ attempts' = [attempts EXCEPT ![a] = NoAttempt]
    /\ ad_pending' = NoPending
    /\ UNCHANGED <<is_shutting_down, admitted, storageVars,
                   searchVars, raceVars, bootVars, sendVars, handshakeVars, sliceVars,
                   halfVars, dedupVars, backoffVars, spawnVars, tree_id, tr_last,
                   routing_limit>>

AdRegisterAny == \E a \in Slots, id \in ConnPeers : AdRegister(a, id)

\* a contact is dropped; the connection being registered has none yet
AdContactLostAny ==
    \E c \in Objects : (ad_pending # NoPending => c # PendingObject) /\ CnContactLost(c)

AdoptNext ==
    \/ CnCreateActiveAny \/ AdRegisterAny \/ AdAdopt
    \/ CnListenerEndAny \/ CnSendFailAny \/ CnTimeoutAny \/ AdContactLostAny

SpecAdopt == ConnInit /\ [][AdoptNext]_vars

\* the ids the routing table holds
RoutingIds == {id \in ConnPeers : KTree_has(tree_id, nodes, id)}

\* C38: whenever no registration is in progress (teardown is one step here),
\* every id held in the routing table has a registered connection in the
\* registry, however the completion of a handshake (register, then
\* on_connect) interleaves with the teardown of that same connection.
C38_RoutingImpliesRegistered ==
    ad_pending = NoPending => RoutingIds \subseteq DOMAIN connections

(***************************************************************************)
(* Claims about Connections::shutdown (SpecConn)                           *)
(***************************************************************************)
\* C39: after Connections::shutdown has run the registry stays empty:
\* alloc_connection denies every later attempt, and no attempt that was in
\* progress when shutdown ran gets registered or emits Connect afterwards.
C39_ShutdownKeepsRegistryEmpty ==
    is_shutting_down =>
        /\ connections = <<>>
        /\ cn_last.op \in {"create_active", "create_passive", "try_offer"} => cn_last.ok # "Ok"
        /\ \A i \in 1..Len(cn_last.events) : cn_last.events[i].kind # "Connect"

(***************************************************************************)
(* Claims about query_value (SpecSearch)                                   *)
(***************************************************************************)
\* query_value returned entries: from the local storage, or collected from
\* the FoundData replies (it returns None otherwise)
ReturnedEntries ==
    /\ se_pc = "done"
    /\ se_call.op = "query_value"
    /\ se_result.kind = "Ok"
    /\ (se_call.target \in DOMAIN topics \/ DOMAIN data_entries # {})

\* C40: query_value(key, limit, options) never returns more than limit
\* entries, whether they come from the local storage or from the FoundData
\* replies of the peers.
C40_QueryValueWithinLimit ==
    ReturnedEntries => Len(se_result.value) <= se_call.limit

====
